---------------------------- MODULE Spec2Model ----------------------------
(***************************************************************************)
(* A model of phl-budget-data's ETL framework: the report pipeline         *)
(* (construct, extract, transform, validate, load) with its files on disk, *)
(* the OCR interim cache, the OCR polling loop and the PDF table           *)
(* reconstruction (words_to_table).                                        *)
(***************************************************************************)
EXTENDS Integers, Sequences, FiniteSets, TLC

VARIABLES
    \* ---- the report pipeline (etl/core.py) and the files it touches
    rawFiles,     \* the raw PDFs on disk: a set of <<report, params>>
    processed,    \* processed-data root: <<report, params>> -> file
    interim,      \* OCR interim cache: <<params, page>> -> file
    interimDir,   \* whether the interim directory exists
    ocrCalls,     \* number of analyze_document calls made so far
    runs,         \* number of invocations started so far
    pc,           \* position of the current invocation
    report,       \* report class of the current invocation
    params,       \* its parameter tuple
    validateFlag, \* extract_transform_load(validate=...)
    extractOnly,  \* the caller runs report.extract() alone
    out,          \* DepartmentObligations.extract: the pages read so far
    data,         \* the table handed from step to step
    validateResult, \* what validate() gave: "none", "true", "false"
    invoked,      \* steps of this invocation that were entered
    completed,    \* steps of this invocation that returned normally
    err,          \* the exception that ended the invocation, or "none"
    written,      \* interim files the latest step wrote (opened for writing)
    \* ---- AWSTextract.extract (etl/aws.py) and the OCR backend
    pollPc,        \* "idle", "polling", "done", "error"
    jobstatus,     \* the JobStatus last read, "None" before the first poll
    backendStatus, \* the analysis job's status at the backend
    response,      \* the Blocks of the backend's response
    polls,         \* get_document_analysis calls made
    yielded,       \* the pages of words extract() yielded
    \* ---- words_to_table (etl/utils/pdf.py)
    words,         \* the tokens extract_words returned for the page
    tablePc,       \* "idle", "input", "done"
    table,         \* the grid words_to_table returned
    \* ---- convert_to_floats (etl/utils/transformations.py)
    cellText,      \* the text of the cell to convert
    coercePc,      \* "idle", "input", "done"
    coerced,       \* the number convert_to_floats gave, or NaN
    \* ---- a monthly city report: extract and transform
    pdfPages,      \* the tokens of each page of the PDF
    stage,         \* "idle", "created", "extracted", "transformed", ...
    reportData,    \* the DataFrame handed from step to step
    raised,        \* the exception a step raised, or "none"
    \* ---- the batch runner (cli/etl/core.py)
    fileStem,      \* the stem of the raw file at hand
    cliPc,         \* "idle", "file", "parsed", "ValueError", ...
    cliParams,     \* what _extract_parameters returned
    legacyParams,  \* what extract_parameters of cli/etl.py returned
    batchRun,      \* the class of the command and its option --kind
    fileDir,       \* the directory of the raw file at hand
    reportPath,    \* self.path of the report made from the parameters
    \* ---- two reports and the files their load() writes
    reportA,       \* a report: its class and its parameters
    reportB,       \* another report
    pathA,         \* the path reportA.load() wrote to
    pathB,         \* the path reportB.load() wrote to
    \* ---- fiscal months (etl/sentinel/core.py, clean.py)
    calendarMonth,     \* a calendar month, 1..12
    fiscalMonth,       \* a fiscal month of a cash report, 1..12
    sentinelFiscal,    \* _to_fiscal_month of it, 0 before the call
    collectionsFiscal, \* the fiscal_month column for it, 0 before
    cashMonth,         \* the month column for fiscalMonth, 0 before
    \* ---- the token providers (etl/utils/pdf.py, etl/aws.py)
    provider,      \* the provider called
    sourceWords,   \* the words pdfplumber or Textract found on the page
    provided,      \* the tokens the provider returned
    tokensPc,      \* "idle", "input", "done"
    \* ---- match_missing_departments (etl/utils/depts/core.py)
    deptFile,      \* interim/dept-matches.json: raw name -> department
    cachedMatches, \* cached_matches, the dict in memory
    missingDepts,  \* the raw names the loop has still to match
    deptPc,        \* "idle", "ready", "loop", "returned", "raised"
    selected,      \* the raw names this call resolved through the selector
    deptCalls,     \* the calls made so far
    \* ---- extract_transform_load_all (etl/qcmr/base.py, spending/summary.py)
    etlClass,      \* the report class the call is made on
    pdfTimes,      \* raw PDF path -> st_mtime
    csvTimes,      \* processed CSV path -> st_mtime, Absent when missing
    clock,         \* the time the next write is stamped with
    pending,       \* the raw PDFs the loop has still to visit
    etlRuns,       \* the raw PDFs this call ran the pipeline for
    freshFlag,     \* the argument fresh of the call
    freshPc,       \* "idle", "ready", "loop", "done"
    \* ---- _run_monthly_update (cli/update/core.py)
    etls,          \* the ETL classes of the update command
    newMonths,     \* new_months still to download, the current one first
    etlsLeft,      \* the classes still to run for the current month
    rawDir,        \* the PDFs of the raw directory
    processedDir,  \* the CSVs of the processed directory
    writtenCsvs,   \* the CSVs this update wrote
    updatePc       \* "idle", "months", "etl", "raised", "done"

pipeVars == <<rawFiles, processed, interim, interimDir, ocrCalls, runs, pc,
              report, params, validateFlag, extractOnly, out, data,
              validateResult, invoked, completed, err, written>>

pollVars == <<pollPc, jobstatus, backendStatus, response, polls, yielded>>

tableVars == <<words, tablePc, table>>

coerceVars == <<cellText, coercePc, coerced>>

reportVars == <<pdfPages, stage, reportData, raised>>

batchVars ==
    <<fileStem, cliPc, cliParams, legacyParams, batchRun, fileDir,
      reportPath>>

loadVars == <<reportA, reportB, pathA, pathB>>

fiscalVars ==
    <<calendarMonth, fiscalMonth, sentinelFiscal, collectionsFiscal, cashMonth>>

tokenVars == <<provider, sourceWords, provided, tokensPc>>

deptVars ==
    <<deptFile, cachedMatches, missingDepts, deptPc, selected, deptCalls>>

freshVars ==
    <<etlClass, pdfTimes, csvTimes, clock, pending, etlRuns, freshFlag,
      freshPc>>

updateVars ==
    <<etls, newMonths, etlsLeft, rawDir, processedDir, writtenCsvs,
      updatePc>>

vars == <<pipeVars, pollVars, tableVars, coerceVars, reportVars,
          batchVars, loadVars, fiscalVars, tokenVars, deptVars,
          freshVars, updateVars>>

---------------------------------------------------------------------------
(* Bounds of the model *)

\* invocations a behaviour may start
MaxRuns == 2
\* pages of a raw QCMR PDF (num_pages)
NumPages == 2
\* get_document_analysis calls a behaviour may make (the loop has no limit)
MaxPolls == 4
\* tokens on a page handed to words_to_table
MaxWords == 5
\* pages of a monthly report's PDF
MaxPages == 2
MaxTextLen == 2
MaxRawWords == 2
MaxMissing == 2
MaxCalls == 2
MaxClock == 7
MaxNewMonths == 3

---------------------------------------------------------------------------
(* Helpers *)

RECURSIVE SumSeq(_)
SumSeq(s) == IF s = <<>> THEN 0 ELSE Head(s) + SumSeq(Tail(s))

Abs(n) == IF n < 0 THEN -n ELSE n

Front(s) == SubSeq(s, 1, Len(s) - 1)

Last(s) == s[Len(s)]

RECURSIVE Concat(_)
Concat(ss) == IF ss = <<>> THEN <<>> ELSE Head(ss) \o Concat(Tail(ss))

---------------------------------------------------------------------------
(* Reports, parameters and paths *)

\* Two report families: a monthly collections report read with the local
\* tokenizer, and a QCMR report read through the OCR backend.
Reports == {"CityTaxCollections", "DepartmentObligations"}

UsesTextract(r) == r = "DepartmentObligations"

\* (year, month) for the monthly report, (fiscal_year, quarter) for QCMR.
ParamTuples == {<<2021, 1>>, <<2021, 2>>}

\* The raw PDF a report reads: one directory per report class, the stem
\* formatted from the parameters.
RawPath(r, p) == <<r, p>>

\* The CSV that load writes.
LoadPath(r, p) == <<r, p>>

\* The per-page cache file of _get_textract_output.
InterimPath(p, pg) == <<p, pg>>

NoFile == [exists |-> FALSE, rows |-> <<>>]

File(rows) == [exists |-> TRUE, rows |-> rows]

\* Tables a city tax PDF may hold: real_estate, wage_city, sales, all_taxes
\* (the monthly column of the 'total' rows).
PdfTables == { <<100, 200, 50, 350>>, <<100, 200, 50, 360>>,
               <<100, 200, 60, 350>>, <<100, 200, 54, 350>> }

\* Tables the OCR backend may return for one page.
OcrTables == { <<100>>, <<104>> }

\* What the raw-data root may hold when the program starts: the PDFs of the
\* first period are downloaded, those of the second may be missing.
RawFileSets ==
    { S \in SUBSET (Reports \X ParamTuples) :
         \A r \in Reports : <<r, <<2021, 1>>>> \in S }

---------------------------------------------------------------------------
(* Validation algebra *)

\* assert diff < 5
CityTaxTolerance == 5

\* if not (diff.abs() <= 3).all(): assert False
ObligationsTolerance == 3

\* CityTaxCollections.validate: the signed difference is compared.
CityTaxValidate(d) == SumSeq(Front(d)) - Last(d) < CityTaxTolerance

\* DepartmentObligations.validate: the absolute difference is compared.
ObligationsValidate(d) ==
    Abs(SumSeq(Front(d)) - Last(d)) <= ObligationsTolerance

Validate(r, d) ==
    IF r = "CityTaxCollections" THEN CityTaxValidate(d)
    ELSE ObligationsValidate(d)

Tolerance(r) ==
    IF r = "CityTaxCollections" THEN CityTaxTolerance
    ELSE ObligationsTolerance

---------------------------------------------------------------------------
(* The pipeline *)

Terminal == {"loaded", "error", "done"}

PipeInit ==
    /\ rawFiles \in RawFileSets
    /\ processed = [k \in Reports \X ParamTuples |-> NoFile]
    /\ interim = [k \in ParamTuples \X (1..NumPages) |-> NoFile]
    /\ interimDir = FALSE
    /\ ocrCalls = 0
    /\ runs = 0
    /\ pc = "idle"
    /\ report = "CityTaxCollections"
    /\ params = <<2021, 1>>
    /\ validateFlag = TRUE
    /\ extractOnly = FALSE
    /\ out = <<>>
    /\ data = <<>>
    /\ validateResult = "none"
    /\ invoked = {}
    /\ completed = {}
    /\ err = "none"
    /\ written = {}

\* Variant: the constructor does not look for the raw PDF.
PathExistsUnchecked(r, p) == TRUE

\* __post_init__: resolve the raw path and fail if it does not exist.
PathExists(r, p) == RawPath(r, p) \in rawFiles

Construct(r, p, v, xo) ==
    /\ pc \in Terminal \cup {"idle"}
    /\ runs < MaxRuns
    /\ runs' = runs + 1
    /\ report' = r
    /\ params' = p
    /\ validateFlag' = v
    /\ extractOnly' = xo
    /\ out' = <<>>
    /\ data' = <<>>
    /\ validateResult' = "none"
    /\ invoked' = {}
    /\ completed' = {}
    /\ IF PathExists(r, p)
       THEN pc' = "created" /\ err' = "none"
       ELSE pc' = "error" /\ err' = "FileNotFoundError"
    /\ written' = {}
    /\ UNCHANGED <<rawFiles, processed, interim, interimDir, ocrCalls>>

\* CityCollectionsReport.extract: read the PDF with the local tokenizer.
ExtractLocal ==
    /\ pc = "created"
    /\ ~UsesTextract(report)
    /\ written' = {}
    /\ invoked' = invoked \cup {"extract"}
    /\ \/ /\ \E t \in PdfTables : data' = t
          /\ pc' = "extracted"
          /\ completed' = completed \cup {"extract"}
          /\ err' = err
       \/ /\ pc' = "error"
          /\ err' = "ParseError"
          /\ UNCHANGED <<data, completed>>
    /\ UNCHANGED <<rawFiles, processed, interim, interimDir, ocrCalls, runs,
                   report, params, validateFlag, extractOnly, out,
                   validateResult>>

\* The files _get_textract_output leaves after a cache miss: pages before
\* the first failing page k are written, whether or not they existed.
\* Variant: the page files are written without the source's stem in the name.
WritesPageAnyStem(p, k, key) == key[2] < k

\* for i, df in parsing_results: df.to_csv(interim_dir / f"{stem}-pg-{i}.csv")
WritesPage(p, k, key) == key[1] = p /\ key[2] < k

WrittenPages(p, k, content) ==
    [key \in DOMAIN interim |->
        IF WritesPage(p, k, key) THEN File(content[key[2]])
        ELSE interim[key]]

\* Variant: the cache file is never looked for.
CacheHitNever(p, pg) == FALSE

\* if not filename.exists(): ... parse
CacheHit(p, pg) == interim[InterimPath(p, pg)].exists

\* One call of _get_textract_output(pg) from DepartmentObligations.extract,
\* pg = 1 .. num_pages in turn.
GetTextractOutput ==
    /\ pc \in {"created", "extracting"}
    /\ UsesTextract(report)
    /\ invoked' = invoked \cup {"extract"}
    /\ LET pg == Len(out) + 1
           step(ret) ==
               /\ out' = Append(out, ret)
               /\ err' = err
               /\ IF pg = NumPages
                  THEN /\ pc' = "extracted"
                       /\ data' = Concat(out')
                       /\ completed' = completed \cup {"extract"}
                  ELSE /\ pc' = "extracting"
                       /\ UNCHANGED <<data, completed>>
       IN  IF CacheHit(params, pg)
           THEN /\ step(interim[InterimPath(params, pg)].rows)
                /\ written' = {}
                /\ UNCHANGED <<interim, interimDir, ocrCalls>>
           ELSE /\ interimDir' = TRUE
                /\ \E content \in [1..NumPages -> OcrTables] :
                   \E k \in 1..(NumPages + 1) :
                      /\ interim' = WrittenPages(params, k, content)
                      /\ written' = { key \in DOMAIN interim :
                                         WritesPage(params, k, key) }
                      /\ IF k = NumPages + 1
                         THEN /\ ocrCalls' = ocrCalls + NumPages
                              /\ step(content[pg])
                         ELSE /\ ocrCalls' = ocrCalls + k
                              /\ pc' = "error"
                              /\ err' = "ProviderError"
                              /\ UNCHANGED <<out, data, completed>>
    /\ UNCHANGED <<rawFiles, processed, runs, report, params, validateFlag,
                   extractOnly, validateResult>>

\* _run_etl(extract_only=True): report.extract() and nothing more.
ExtractOnlyDone ==
    /\ pc = "extracted"
    /\ extractOnly
    /\ pc' = "done"
    /\ written' = {}
    /\ UNCHANGED <<rawFiles, processed, interim, interimDir, ocrCalls, runs,
                   report, params, validateFlag, extractOnly, out, data,
                   validateResult, invoked, completed, err>>

\* transform: clean the table; any failure propagates.
Transform ==
    /\ pc = "extracted"
    /\ ~extractOnly
    /\ written' = {}
    /\ invoked' = invoked \cup {"transform"}
    /\ \/ /\ pc' = "transformed"
          /\ completed' = completed \cup {"transform"}
          /\ err' = err
       \/ /\ pc' = "error"
          /\ err' = "ParseError"
          /\ UNCHANGED completed
    /\ UNCHANGED <<rawFiles, processed, interim, interimDir, ocrCalls, runs,
                   report, params, validateFlag, extractOnly, out, data,
                   validateResult>>

\* Variant: the result of validate() is not asserted.
ValidateStepNoAssert ==
    /\ pc = "transformed"
    /\ validateFlag
    /\ written' = {}
    /\ invoked' = invoked \cup {"validate"}
    /\ validateResult' = IF Validate(report, data) THEN "true" ELSE "false"
    /\ pc' = "validated"
    /\ completed' = completed \cup {"validate"}
    /\ err' = err
    /\ UNCHANGED <<rawFiles, processed, interim, interimDir, ocrCalls, runs,
                   report, params, validateFlag, extractOnly, out, data>>

\* if validate: assert self.validate(data) == True
ValidateStep ==
    /\ pc = "transformed"
    /\ validateFlag
    /\ written' = {}
    /\ invoked' = invoked \cup {"validate"}
    /\ IF Validate(report, data)
       THEN /\ validateResult' = "true"
            /\ pc' = "validated"
            /\ completed' = completed \cup {"validate"}
            /\ err' = err
       ELSE /\ validateResult' = "false"
            /\ pc' = "error"
            /\ err' = "AssertionError"
            /\ UNCHANGED completed
    /\ UNCHANGED <<rawFiles, processed, interim, interimDir, ocrCalls, runs,
                   report, params, validateFlag, extractOnly, out, data>>

\* What data.to_csv(path) leaves when it stops after k of the rows: the
\* file is opened for writing (truncated) and the rows written in order.
CsvAfter(rows, k) == File(SubSeq(rows, 1, k))

\* load -> _load_csv_data: data.to_csv(path), which may fail part-way.
Load ==
    /\ \/ pc = "validated"
       \/ pc = "transformed" /\ ~validateFlag
    /\ written' = {}
    /\ invoked' = invoked \cup {"load"}
    /\ \E k \in 0..Len(data) :
          /\ processed' = [processed EXCEPT
                             ![LoadPath(report, params)] = CsvAfter(data, k)]
          /\ IF k = Len(data)
             THEN /\ pc' = "loaded"
                  /\ completed' = completed \cup {"load"}
                  /\ err' = err
             ELSE /\ pc' = "error"
                  /\ err' = "OSError"
                  /\ UNCHANGED completed
    /\ UNCHANGED <<rawFiles, interim, interimDir, ocrCalls, runs, report,
                   params, validateFlag, extractOnly, out, data,
                   validateResult>>

---------------------------------------------------------------------------
(* AWSTextract.extract: upload, start the analysis, poll, yield the words *)

Str(chars) == chars

\* The JobStatus values of the backend's get_document_analysis.
TerminalStatuses == {"SUCCEEDED", "FAILED", "PARTIAL_SUCCESS"}

WordBlock(page, left, width, top, height, text) ==
    [BlockType |-> "WORD", Page |-> page, Left |-> left, Width |-> width,
     Top |-> top, Height |-> height, Text |-> text]

LineBlock(page, left, width, top, height, text) ==
    [BlockType |-> "LINE", Page |-> page, Left |-> left, Width |-> width,
     Top |-> top, Height |-> height, Text |-> text]

\* Responses the backend may give for a succeeded job.
Responses ==
    { <<>>,
      << LineBlock(1, 0, 60, 100, 12, Str(<<"W", "a", "g", "e", " ", "1", "2">>)),
         WordBlock(1, 0, 40, 100, 12, Str(<<"W", "a", "g", "e">>)),
         WordBlock(1, 50, 10, 100, 12, Str(<<"1", "2">>)) >>,
      << WordBlock(2, 0, 40, 100, 12, Str(<<"T", "a", "x">>)),
         WordBlock(1, 0, 40, 100, 12, Str(<<"W", "a", "g", "e">>)) >>,
      << WordBlock(1, 0, 40, 100, 12, Str(<<"W", "a", "g", "e">>)),
         WordBlock(2, 0, 40, 100, 12, Str(<<"T", "a", "x">>)),
         WordBlock(2, 50, 10, 100, 12, Str(<<" ", "7">>)) >> }

\* Word(x0=Left, x1=Left + Width, top=Top, bottom=Top + Height, text=Text)
BlockToWord(b) ==
    [x0 |-> b.Left, x1 |-> b.Left + b.Width, top |-> b.Top,
     bottom |-> b.Top + b.Height, text |-> b.Text]

\* map_blocks(blocks, "WORD"), in the order of the blocks
RECURSIVE WordsOfPage(_, _)
WordsOfPage(blocks, pg) ==
    IF blocks = <<>> THEN <<>>
    ELSE LET b == Head(blocks)
             rest == WordsOfPage(Tail(blocks), pg)
         IN  IF b.BlockType = "WORD" /\ b.Page = pg
             THEN <<BlockToWord(b)>> \o rest
             ELSE rest

PagesWithWords(blocks) ==
    { blocks[i].Page : i \in { j \in DOMAIN blocks :
                                   blocks[j].BlockType = "WORD" } }

\* for pg_num in sorted(out): yield out[pg_num]
RECURSIVE PagesInOrder(_, _)
PagesInOrder(blocks, pgs) ==
    IF pgs = {} THEN <<>>
    ELSE LET pg == CHOOSE q \in pgs : \A r \in pgs : q <= r
         IN  <<WordsOfPage(blocks, pg)>> \o PagesInOrder(blocks, pgs \ {pg})

TextractToWords(blocks) == PagesInOrder(blocks, PagesWithWords(blocks))

PollInit ==
    /\ pollPc = "idle"
    /\ jobstatus = "None"
    /\ backendStatus = "NONE"
    /\ response = <<>>
    /\ polls = 0
    /\ yielded = <<>>

\* upload_file and start_document_analysis: either may raise.
StartAnalysis ==
    /\ pollPc = "idle"
    /\ \/ /\ pollPc' = "polling"
          /\ backendStatus' = "IN_PROGRESS"
       \/ /\ pollPc' = "error"
          /\ UNCHANGED backendStatus
    /\ UNCHANGED <<jobstatus, response, polls, yielded>>

\* The backend ends the job, with success or not.
BackendFinish ==
    /\ backendStatus = "IN_PROGRESS"
    /\ \E st \in TerminalStatuses :
          /\ backendStatus' = st
          /\ IF st = "FAILED" THEN response' = <<>>
             ELSE \E r \in Responses : response' = r
    /\ UNCHANGED <<pollPc, jobstatus, polls, yielded>>

\* while jobstatus != "SUCCEEDED"
LoopCondition == jobstatus # "SUCCEEDED"

\* One turn of the loop: get_document_analysis (which may raise), read
\* JobStatus, sleep.
Poll ==
    /\ pollPc = "polling"
    /\ LoopCondition
    /\ polls < MaxPolls
    /\ polls' = polls + 1
    /\ \/ /\ jobstatus' = backendStatus
          /\ UNCHANGED pollPc
       \/ /\ pollPc' = "error"
          /\ UNCHANGED jobstatus
    /\ UNCHANGED <<backendStatus, response, yielded>>

\* yield from textract_to_words(response)
YieldWords ==
    /\ pollPc = "polling"
    /\ ~LoopCondition
    /\ yielded' = TextractToWords(response)
    /\ pollPc' = "done"
    /\ UNCHANGED <<jobstatus, backendStatus, response, polls>>

---------------------------------------------------------------------------
(* PDF table reconstruction: etl/utils/pdf.py                              *)
(* A text is a sequence of one-character strings.                          *)

Word(x0, x1, top, bottom, text) ==
    [x0 |-> x0, x1 |-> x1, top |-> top, bottom |-> bottom, text |-> text]

\* The tolerances of words_to_table: its keyword defaults, and the
\* row_header_tolerance the monthly city report passes.
text_tolerance_y == 5
text_tolerance_x == 3
column_tolerance == 20
min_col_sep == 24
row_header_tolerance == 20

Letters ==
    {"a", "b", "c", "d", "e", "f", "g", "h", "i", "j", "k", "l", "m",
     "n", "o", "p", "q", "r", "s", "t", "u", "v", "w", "x", "y", "z",
     "A", "B", "C", "D", "E", "F", "G", "H", "I", "J", "K", "L", "M",
     "N", "O", "P", "Q", "R", "S", "T", "U", "V", "W", "X", "Y", "Z"}

Digits == {"0", "1", "2", "3", "4", "5", "6", "7", "8", "9"}

\* str.isalpha()
IsAlpha(t) == t # <<>> /\ \A i \in 1..Len(t) : t[i] \in Letters

\* text.replace(" ", "")
RemoveSpaces(t) == SelectSeq(t, LAMBDA c : c # " ")

\* str.startswith
StartsWith(t, prefix) ==
    Len(t) >= Len(prefix) /\ SubSeq(t, 1, Len(prefix)) = prefix

\* A variant of the number pattern that also takes a leading "$".
MatchesNumberOrCurrency(t) ==
    LET s == RemoveSpaces(t)
        body == IF s # <<>> /\ s[1] \in {"(", "$"} THEN Tail(s) ELSE s
    IN  /\ body # <<>>
        /\ \/ body[1] \in Digits
           \/ body[1] = "-"
           \/ StartsWith(body, <<"N", "/", "A">>)

\* re.match("\(?(\d+(?:\.\d+)?%|\d{1,3}(?:,\d{3})*|-|N/A)\)?", text without
\* spaces): anchored at the start only, so it matches when, after an
\* optional "(", the text begins with a digit, "-" or "N/A".
MatchesNumber(t) ==
    LET s == RemoveSpaces(t)
        body == IF s # <<>> /\ s[1] = "(" THEN Tail(s) ELSE s
    IN  /\ body # <<>>
        /\ \/ body[1] \in Digits
           \/ body[1] = "-"
           \/ StartsWith(body, <<"N", "/", "A">>)

\* sorted(set of numbers)
RECURSIVE SortedKeys(_)
SortedKeys(S) ==
    IF S = {} THEN <<>>
    ELSE LET m == CHOOSE x \in S : \A y \in S : x <= y
         IN  <<m>> \o SortedKeys(S \ {m})

\* The members of a list, each once, in order of first occurrence: the
\* IntervalTree is a set of intervals compared by value.
RECURSIVE Unique(_)
Unique(s) ==
    IF s = <<>> THEN <<>>
    ELSE LET f == Unique(Front(s))
         IN  IF \E i \in 1..Len(f) : f[i] = Last(s) THEN f
             ELSE Append(f, Last(s))

RECURSIVE InsertSorted(_, _, _)
InsertSorted(w, s, attr) ==
    IF s = <<>> THEN <<w>>
    ELSE IF w[attr] < Head(s)[attr] THEN <<w>> \o s
    ELSE <<Head(s)>> \o InsertSorted(w, Tail(s), attr)

\* sorted(list, key=attrgetter(attr)): stable
RECURSIVE SortedBy(_, _)
SortedBy(s, attr) ==
    IF s = <<>> THEN <<>>
    ELSE InsertSorted(Last(s), SortedBy(Front(s), attr), attr)

RECURSIVE Groups(_, _, _, _, _, _)
Groups(tree, keys, lower, upper, attr, acc) ==
    IF keys = <<>> THEN acc
    ELSE LET y == Head(keys)
             values ==
                 SortedBy(SelectSeq(tree, LAMBDA w :
                              w[attr] - lower <= y /\ y < w[attr] + upper),
                          "x0")
             seen == \E i \in 1..Len(acc) : acc[i].values = values
         IN  Groups(tree, Tail(keys), lower, upper, attr,
                    IF seen THEN acc
                    ELSE Append(acc, [loc |-> y, values |-> values]))

\* Variant: a group holds the words whose key equals the group's key.
FuzzyGroupByExactKey(ws, lower, upper, attr) ==
    Groups(Unique(ws), SortedKeys({ws[i][attr] : i \in 1..Len(ws)}),
           0, 1, attr, <<>>)

\* fuzzy_groupby: for each distinct key value, ascending, the words whose
\* half-open interval [key - lower, key + upper) holds it, left to right;
\* a group equal to an earlier one is skipped. The result is the dict in
\* insertion order.
FuzzyGroupBy(ws, lower, upper, attr) ==
    Groups(Unique(ws), SortedKeys({ws[i][attr] : i \in 1..Len(ws)}),
           lower, upper, attr, <<>>)

RemoveAt(s, i) == SubSeq(s, 1, i - 1) \o SubSeq(s, i + 1, Len(s))

\* The object a row entry refers to: rows hold the copied Word objects
\* themselves, so a word in two overlapping rows is one object.
RefOf(store, w) ==
    CHOOSE i \in 1..Len(store) :
        store[i] = w /\ \A j \in 1..(i - 1) : store[j] # w

\* Variant: the merged word keeps its own right edge.
RECURSIVE MergePhrasesKeepX1(_, _, _, _)
MergePhrasesKeepX1(row, store, i, tol) ==
    IF i < 2 THEN [row |-> row, store |-> store]
    ELSE LET this_word == store[row[i]]
             prev_word == store[row[i - 1]]
         IN  IF this_word.x0 - prev_word.x1 < tol
             THEN MergePhrasesKeepX1(
                      RemoveAt(row, i),
                      [store EXCEPT ![row[i - 1]] =
                          [prev_word EXCEPT
                              !.text = prev_word.text \o <<" ">>
                                           \o this_word.text]],
                      i - 1, tol)
             ELSE MergePhrasesKeepX1(row, store, i - 1, tol)

\* "Group words into phrases": right to left, a word closer than tol to
\* its left neighbour is appended to the neighbour, in place, and removed
\* from the row.
RECURSIVE MergePhrases(_, _, _, _)
MergePhrases(row, store, i, tol) ==
    IF i < 2 THEN [row |-> row, store |-> store]
    ELSE LET this_word == store[row[i]]
             prev_word == store[row[i - 1]]
         IN  IF this_word.x0 - prev_word.x1 < tol
             THEN MergePhrases(
                      RemoveAt(row, i),
                      [store EXCEPT ![row[i - 1]] =
                          [prev_word EXCEPT
                              !.text = prev_word.text \o <<" ">>
                                           \o this_word.text,
                              !.x1 = this_word.x1]],
                      i - 1, tol)
             ELSE MergePhrases(row, store, i - 1, tol)

\* The loop over the rows: merge phrases, skip a row whose first phrase
\* starts with "*", and split row headers from numbers.
RECURSIVE SplitRows(_, _, _)
SplitRows(rows, acc, tol) ==
    IF rows = <<>> THEN acc
    ELSE LET m == MergePhrases(Head(rows), acc.store, Len(Head(rows)), tol)
             row == m.row
             store == m.store
             first == store[row[1]].text
         IN  IF StartsWith(first, <<"*">>)
             THEN SplitRows(Tail(rows), [acc EXCEPT !.store = store], tol)
             ELSE IF first[1] \in Letters
             THEN SplitRows(Tail(rows),
                      [store |-> store,
                       headers |-> Append(acc.headers, row[1]),
                       words |-> acc.words \o
                           SelectSeq(row, LAMBDA r :
                               MatchesNumber(store[r].text))],
                      tol)
             ELSE SplitRows(Tail(rows),
                      [store |-> store,
                       headers |-> acc.headers,
                       words |-> acc.words \o row],
                      tol)

\* The rows of the page, as lists of references into the copied words.
TableRows(ws, tol_y) ==
    LET rows == FuzzyGroupBy(ws, tol_y, tol_y, "bottom")
    IN  [k \in 1..Len(rows) |->
            [i \in 1..Len(rows[k].values) |-> RefOf(ws, rows[k].values[i])]]

\* headers and words as the loop leaves them
TableSplit(ws, tol_y, tol_x) ==
    LET acc == SplitRows(TableRows(ws, tol_y),
                         [store |-> ws, headers |-> <<>>, words |-> <<>>],
                         tol_x)
    IN  [headers |-> [i \in 1..Len(acc.headers) |-> acc.store[acc.headers[i]]],
         words |-> [i \in 1..Len(acc.words) |-> acc.store[acc.words[i]]]]

\* fuzzy_groupby on x1, each column then sorted top to bottom
GroupColumns(ws, tol) ==
    LET cols == FuzzyGroupBy(ws, tol, tol, "x1")
    IN  [k \in 1..Len(cols) |->
            [loc |-> cols[k].loc, values |-> SortedBy(cols[k].values, "top")]]

IsOrphan(columns, k) ==
    \E j \in 1..Len(columns) :
        /\ j # k
        /\ \A i \in 1..Len(columns[k].values) :
               \E n \in 1..Len(columns[j].values) :
                   columns[j].values[n] = columns[k].values[i]

\* remove_orphan_columns
RemoveOrphanColumns(columns) ==
    LET keep == SelectSeq([k \in 1..Len(columns) |-> k],
                          LAMBDA k : ~IsOrphan(columns, k))
    IN  [n \in 1..Len(keep) |-> columns[keep[n]]]

HasColumn(columns, loc) == \E k \in 1..Len(columns) : columns[k].loc = loc

ColumnAt(columns, loc) ==
    columns[CHOOSE k \in 1..Len(columns) : columns[k].loc = loc]

\* Variant: del columns[from], its words being dropped.
MergeIntoDropping(columns, into, from) ==
    SelectSeq(columns, LAMBDA c : c.loc # from)

\* columns[into] += columns[from]; del columns[from]
MergeInto(columns, into, from) ==
    LET merged == [k \in 1..Len(columns) |->
                      IF columns[k].loc = into
                      THEN [loc |-> into,
                            values |-> columns[k].values \o
                                           ColumnAt(columns, from).values]
                      ELSE columns[k]]
    IN  SelectSeq(merged, LAMBDA c : c.loc # from)

RECURSIVE CloseColumns(_, _, _, _)
CloseColumns(locations, i, columns, sep) ==
    IF i >= Len(locations) THEN columns
    ELSE LET this_loc == locations[i]
             next_loc == locations[i + 1]
         IN  IF ~HasColumn(columns, this_loc)
             THEN CloseColumns(locations, i + 1, columns, sep)
             ELSE IF next_loc - this_loc < sep
             THEN IF Len(ColumnAt(columns, next_loc).values)
                        > Len(ColumnAt(columns, this_loc).values)
                  THEN CloseColumns(locations, i + 1,
                           MergeInto(columns, next_loc, this_loc), sep)
                  ELSE CloseColumns(locations, i + 1,
                           MergeInto(columns, this_loc, next_loc), sep)
             ELSE CloseColumns(locations, i + 1, columns, sep)

\* remove_close_columns
RemoveCloseColumns(columns, sep) ==
    CloseColumns(SortedKeys({columns[k].loc : k \in 1..Len(columns)}),
                 1, columns, sep)

\* remove_all_alpha_columns
RemoveAllAlphaColumns(columns) ==
    SelectSeq(columns, LAMBDA c :
        ~ \A i \in 1..Len(c.values) : IsAlpha(RemoveSpaces(c.values[i].text)))

\* The columns handed to create_data_table.
TableColumns(ws, col_tol, sep) ==
    RemoveAllAlphaColumns(
        RemoveCloseColumns(RemoveOrphanColumns(GroupColumns(ws, col_tol)),
                           sep))

\* headers[np.argmin(np.abs(header_tops - word.top))]: the first minimum
ClosestHeader(headers, w) ==
    headers[CHOOSE h \in 1..Len(headers) :
        /\ \A g \in 1..Len(headers) :
               Abs(headers[h].top - w.top) <= Abs(headers[g].top - w.top)
        /\ \A g \in 1..(h - 1) :
               Abs(headers[g].top - w.top) > Abs(headers[h].top - w.top)]

\* The column's words within match_tol of the header, nearest first.
Candidates(h, col, match_tol) ==
    SortedBy(
        SelectSeq([i \in 1..Len(col) |->
                      [word |-> col[i], diff |-> Abs(col[i].top - h.top)]],
                  LAMBDA c : c.diff <= match_tol),
        "diff")

\* The text create_data_table puts at (row of h, column col).
CellText(headers, h, col, match_tol) ==
    LET cands == Candidates(h, col, match_tol)
        hits == SelectSeq(cands, LAMBDA c : ClosestHeader(headers, c.word) = h)
    IN  IF hits = <<>> THEN <<>> ELSE hits[1].word.text

\* create_data_table: one row per header, the header text first
CreateDataTable(headers, columns, match_tol) ==
    [r \in 1..Len(headers) |->
        [c \in 1..(Len(columns) + 1) |->
            IF c = 1 THEN headers[r].text
            ELSE CellText(headers, headers[r], columns[c - 1].values,
                          match_tol)]]

\* Variant: "-" cells become empty and no column is dropped.
RemoveHyphensKeepColumns(grid) ==
    [r \in 1..Len(grid) |->
        [c \in 1..Len(grid[r]) |->
            IF grid[r][c] = <<"-">> THEN <<>> ELSE grid[r][c]]]

\* remove_hyphens: "-" cells become empty, and the columns that are empty
\* in every row are dropped (every column, when there is no row).
RemoveHyphens(grid) ==
    IF grid = <<>> THEN <<>>
    ELSE LET df == [r \in 1..Len(grid) |->
                       [c \in 1..Len(grid[r]) |->
                           IF grid[r][c] = <<"-">> THEN <<>> ELSE grid[r][c]]]
             good == SelectSeq([c \in 1..Len(df[1]) |-> c],
                               LAMBDA c : \E r \in 1..Len(df) : df[r][c] # <<>>)
         IN  [r \in 1..Len(df) |-> [n \in 1..Len(good) |-> df[r][good[n]]]]

\* The number of columns of a grid; a grid without rows has none, since
\* remove_hyphens drops every column of it.
Width(grid) == IF grid = <<>> THEN 0 ELSE Len(grid[1])

WordsToTableWith(ws, tol_y, tol_x, col_tol, sep, header_tol) ==
    LET split == TableSplit(ws, tol_y, tol_x)
    IN  RemoveHyphens(
            CreateDataTable(split.headers,
                            TableColumns(split.words, col_tol, sep),
                            header_tol))

\* words_to_table
WordsToTable(ws) ==
    WordsToTableWith(ws, text_tolerance_y, text_tolerance_x,
                     column_tolerance, min_col_sep, row_header_tolerance)

\* The tokens a page may hold, in extract_words' order (top, then x0).
PageTokens ==
    << Word(0, 40, 100, 112, <<"W", "a", "g", "e">>),
       Word(200, 260, 101, 113,
            <<"$", "1", ",", "2", "3", "4", ".", "0", "0">>),
       Word(206, 260, 101, 113, <<"1", ",", "2", "3", "4", ".", "0", "0">>),
       Word(1, 30, 130, 142, <<"T", "a", "x">>),
       Word(246, 260, 131, 143, <<"5", "6">>),
       Word(2, 60, 160, 172, <<"*", "P", "r", "e", "l", "i", "m">>),
       Word(3, 30, 190, 202, <<"N", "e", "t">>),
       Word(251, 258, 191, 203, <<"7">>) >>

\* A page whose tokens of one line sit on slightly different baselines,
\* with a three-word row header and a number between two headers.
LedgerTokens ==
    << Word(240, 260, 96, 108, <<"1", "0">>),
       Word(5, 25, 100, 112, <<"R", "e", "a", "l">>),
       Word(27, 50, 100, 112, <<"E", "s", "t", "a", "t", "e">>),
       Word(52, 65, 100, 112, <<"T", "a", "x">>),
       Word(300, 320, 104, 116, <<"2", "0">>),
       Word(242, 260, 112, 124, <<"3", "0">>),
       Word(6, 30, 124, 136, <<"W", "a", "g", "e">>) >>

\* A page whose numbers end at right edges a few points apart.
ColumnTokens ==
    << Word(0, 30, 100, 112, <<"F", "e", "e">>),
       Word(226, 241, 100, 112, <<"1", "1">>),
       Word(245, 260, 130, 142, <<"1", "2">>),
       Word(247, 262, 160, 172, <<"1", "3">>),
       Word(266, 281, 190, 202, <<"1", "4">>),
       Word(268, 283, 220, 232, <<"1", "5">>) >>

\* A page of narrow numbers whose right edges are one column tolerance
\* apart, each on a line of its own next to one row header.
StaggeredTokens ==
    << Word(90, 100, 88, 100, <<"2", "1">>),
       Word(110, 120, 94, 106, <<"2", "2">>),
       Word(0, 30, 100, 112, <<"F", "e", "e">>),
       Word(130, 140, 100, 112, <<"2", "3">>),
       Word(150, 160, 106, 118, <<"2", "4">>) >>

\* The sub-lists of up to MaxWords tokens of a page.
SubLists(tokens) ==
    { SelectSeq(tokens, LAMBDA w : w \in S) :
        S \in { T \in SUBSET { tokens[i] : i \in 1..Len(tokens) } :
                    Cardinality(T) <= MaxWords } }

\* extract_words' results.
Pages ==
    SubLists(PageTokens) \cup SubLists(LedgerTokens)
        \cup SubLists(ColumnTokens) \cup SubLists(StaggeredTokens)

TableIdle == words = <<>> /\ tablePc = "idle" /\ table = <<>>

TableInit == words \in Pages /\ tablePc = "input" /\ table = <<>>

\* table = words_to_table(words)
WordsToTableStep ==
    /\ tablePc = "input"
    /\ table' = WordsToTable(words)
    /\ tablePc' = "done"
    /\ UNCHANGED words

---------------------------------------------------------------------------
(* Numeric coercion: etl/utils/transformations.py                          *)
(* A number is a decimal [num, scale], num / 10^scale, kept without        *)
(* trailing fractional zeros so that equal numbers are equal records.      *)

\* NaN in a column of numbers
Missing == [num |-> 0, scale |-> -1]

\* NaN in a column of texts
NaNCell == <<"NaN">>

DigitChars == <<"0", "1", "2", "3", "4", "5", "6", "7", "8", "9">>

DigitValue(c) == (CHOOSE d \in 1..10 : DigitChars[d] = c) - 1

RECURSIVE Normalised(_, _)
Normalised(num, scale) ==
    IF scale > 0 /\ num % 10 = 0 THEN Normalised(num \div 10, scale - 1)
    ELSE [num |-> num, scale |-> scale]

Decimal(num, scale) ==
    IF num < 0
    THEN [num |-> -Normalised(-num, scale).num,
          scale |-> Normalised(-num, scale).scale]
    ELSE Normalised(num, scale)

RECURSIVE TextToNat(_)
TextToNat(t) ==
    IF t = <<>> THEN 0
    ELSE 10 * TextToNat(Front(t)) + DigitValue(Last(t))

\* The index of the first "." of a text, 0 when it has none.
PointIndex(t) ==
    IF \E i \in 1..Len(t) : t[i] = "."
    THEN CHOOSE i \in 1..Len(t) : t[i] = "." /\ \A j \in 1..(i - 1) : t[j] # "."
    ELSE 0

\* digits, with at most one "." among them, and at least one digit
IsUnsignedDecimal(t) ==
    LET p == PointIndex(t)
        whole == IF p = 0 THEN t ELSE SubSeq(t, 1, p - 1)
        frac == IF p = 0 THEN <<>> ELSE SubSeq(t, p + 1, Len(t))
    IN  /\ \A i \in 1..Len(whole) : whole[i] \in Digits
        /\ \A i \in 1..Len(frac) : frac[i] \in Digits
        /\ Len(whole) + Len(frac) >= 1

UnsignedDecimal(t) ==
    LET p == PointIndex(t)
        whole == IF p = 0 THEN t ELSE SubSeq(t, 1, p - 1)
        frac == IF p = 0 THEN <<>> ELSE SubSeq(t, p + 1, Len(t))
    IN  Decimal(TextToNat(whole \o frac), Len(frac))

\* The text parses as a number: an optional sign, then an unsigned decimal.
IsNumeric(t) ==
    /\ t # <<>>
    /\ IsUnsignedDecimal(IF t[1] \in {"-", "+"} THEN Tail(t) ELSE t)

\* pd.to_numeric(..., errors="coerce") on one cell: the number a text
\* spells, NaN for the empty text, for NaN and for a text that spells none.
ToNumeric(cell) ==
    IF cell = NaNCell \/ ~IsNumeric(cell) THEN Missing
    ELSE IF cell[1] = "-"
    THEN Decimal(-UnsignedDecimal(Tail(cell)).num,
                 UnsignedDecimal(Tail(cell)).scale)
    ELSE UnsignedDecimal(IF cell[1] = "+" THEN Tail(cell) ELSE cell)

\* Series.replace(pattern, to, regex=True) with a one-character class:
\* every character of the class is replaced; NaN stays NaN.
ReplaceChars(cell, class, to) ==
    IF cell = NaNCell THEN NaNCell
    ELSE Concat([i \in 1..Len(cell) |->
                    IF cell[i] \in class THEN to ELSE <<cell[i]>>])

\* Variant: parentheses are dropped, not turned into a sign.
ConvertToFloatsUnsigned(cell) ==
    ToNumeric(ReplaceChars(cell, {"$", ",", ")", "("}, <<>>))

\* convert_to_floats on one cell, errors="coerce"
ConvertToFloats(cell) ==
    ToNumeric(ReplaceChars(ReplaceChars(cell, {"$", ",", ")"}, <<>>),
                           {"("}, <<"-">>))

RECURSIVE NatToText(_)
NatToText(n) ==
    IF n < 10 THEN <<DigitChars[n + 1]>>
    ELSE NatToText(n \div 10) \o <<DigitChars[(n % 10) + 1]>>

\* thousands separators
RECURSIVE Grouped(_)
Grouped(t) ==
    IF Len(t) <= 3 THEN t
    ELSE Grouped(SubSeq(t, 1, Len(t) - 3)) \o <<",">>
             \o SubSeq(t, Len(t) - 2, Len(t))

\* An amount of cents written as currency: "$1,234.50", "(500.00)".
FormatCurrency(cents) ==
    LET m == Abs(cents)
        body == Grouped(NatToText(m \div 100)) \o <<".">>
                    \o <<DigitChars[((m % 100) \div 10) + 1],
                         DigitChars[(m % 10) + 1]>>
    IN  IF cents >= 0 THEN <<"$">> \o body ELSE <<"(">> \o body \o <<")">>

\* The amounts, in cents, the reports' cells are drawn from.
Wholes == {0, 1, 12, 500, 999, 1000, 1234, 12345, 100000, 1234567}

Fractions == {0, 5, 50, 99}

Amounts ==
    { s * (w * 100 + f) : s \in {-1, 1}, w \in Wholes, f \in Fractions }

\* Cells that are no currency amount.
OtherCells ==
    { <<>>, <<"N", "/", "A">>, <<"-">>, <<"1", "2", ".", "5">>,
      <<"1", "2", ".", "5", "%">>, <<"a", "b", "c">>, <<"(", "(", "5", ")">>,
      <<"1", ".", "2", ".", "3">> }

CoerceIdle == cellText = <<>> /\ coercePc = "idle" /\ coerced = Missing

CoerceInit ==
    /\ cellText \in { FormatCurrency(a) : a \in Amounts } \cup OtherCells
    /\ coercePc = "input"
    /\ coerced = Missing

\* coerced = convert_to_floats(cellText)
ConvertToFloatsStep ==
    /\ coercePc = "input"
    /\ coerced' = ConvertToFloats(cellText)
    /\ coercePc' = "done"
    /\ UNCHANGED cellText

---------------------------------------------------------------------------
(* The monthly cleaner pipeline: etl/utils/transformations.py and          *)
(* MonthlyCollectionsReport.transform.                                     *)
(* A frame is [ncols, rows, numeric]: the number of columns, the rows as   *)
(* sequences of cells, and the columns (by position) of a numeric dtype.   *)
(* A pass gives [frame, error]; error is "none" when it returned.          *)

Frame(ncols, rows, numeric) ==
    [ncols |-> ncols, rows |-> rows, numeric |-> numeric]

Returned(frame) == [frame |-> frame, error |-> "none"]

Raised(frame, error) == [frame |-> frame, error |-> error]

\* data.pipe(f): the next pass runs when the one before returned
Pipe(result, Pass(_)) ==
    IF result.error # "none" THEN result ELSE Pass(result.frame)

UpperLetters ==
    {"A", "B", "C", "D", "E", "F", "G", "H", "I", "J", "K", "L", "M",
     "N", "O", "P", "Q", "R", "S", "T", "U", "V", "W", "X", "Y", "Z"}

\* [a-zA-Z0-9%,.]
DuplicableChars == Letters \cup Digits \cup {"%", ",", "."}

\* A .str method on one cell: NaN stays NaN.
OnText(cell, Op(_)) == IF cell = NaNCell THEN NaNCell ELSE Op(cell)

\* str.strip()
RECURSIVE LStrip(_)
LStrip(t) == IF t # <<>> /\ t[1] = " " THEN LStrip(Tail(t)) ELSE t

RECURSIVE RStrip(_)
RStrip(t) == IF t # <<>> /\ Last(t) = " " THEN RStrip(Front(t)) ELSE t

Strip(t) == LStrip(RStrip(t))

\* str.rstrip("%")
RECURSIVE RStripPercent(_)
RStripPercent(t) ==
    IF t # <<>> /\ Last(t) = "%" THEN RStripPercent(Front(t)) ELSE t

\* str.replace(two, one, regex=False) for a doubled character
RECURSIVE ReplaceDoubled(_, _)
ReplaceDoubled(t, c) ==
    IF Len(t) < 2 THEN t
    ELSE IF t[1] = c /\ t[2] = c
    THEN <<c>> \o ReplaceDoubled(SubSeq(t, 3, Len(t)), c)
    ELSE <<t[1]>> \o ReplaceDoubled(Tail(t), c)

\* The length of the run of equal characters a text starts with.
RECURSIVE RunLength(_)
RunLength(t) ==
    IF Len(t) >= 2 /\ t[2] = t[1] THEN 1 + RunLength(Tail(t)) ELSE 1

\* str.replace(r"([a-zA-Z0-9%,.])\1+", "")
RECURSIVE RemoveRuns(_)
RemoveRuns(t) ==
    IF t = <<>> THEN <<>>
    ELSE IF t[1] \in DuplicableChars /\ RunLength(t) >= 2
    THEN RemoveRuns(SubSeq(t, RunLength(t) + 1, Len(t)))
    ELSE <<t[1]>> \o RemoveRuns(Tail(t))

\* str.replace(r"([a-zA-Z0-9%,.])\1{1,2}", r"\1")
RECURSIVE CollapseRuns(_)
CollapseRuns(t) ==
    IF t = <<>> THEN <<>>
    ELSE IF t[1] \in DuplicableChars /\ RunLength(t) >= 2
    THEN <<t[1]>> \o
         CollapseRuns(SubSeq(t, (IF RunLength(t) > 3 THEN 3
                                 ELSE RunLength(t)) + 1, Len(t)))
    ELSE <<t[1]>> \o CollapseRuns(Tail(t))

\* The frame with Op applied to the cells of the columns from `first` on.
MapColumns(frame, first, Op(_)) ==
    [frame EXCEPT !.rows =
        [r \in 1..Len(frame.rows) |->
            [c \in 1..Len(frame.rows[r]) |->
                IF c >= first THEN Op(frame.rows[r][c])
                ELSE frame.rows[r][c]]]]

\* The columns 1: of the frame hold texts (the .str accessor works).
DataColumnsAreText(frame) == \A c \in 2..frame.ncols : c \notin frame.numeric

\* remove_footnotes: df[0] needs a column 0
RemoveFootnotes(frame) ==
    IF frame.ncols = 0 THEN Raised(frame, "KeyError")
    ELSE IF 1 \in frame.numeric THEN Raised(frame, "AttributeError")
    ELSE Returned([frame EXCEPT !.rows =
             SelectSeq(frame.rows, LAMBDA row :
                 ~StartsWith(Strip(row[1]), <<"*">>))])

\* The row is one whose column 1, with its runs of repeated characters
\* and its commas removed, is empty.
IsDuplicatedRow(row) ==
    /\ row[2] # NaNCell
    /\ Len(row[2]) > 0
    /\ SelectSeq(RemoveRuns(row[2]), LAMBDA ch : ch # ",") = <<>>

\* fix_duplicated_chars: data[1] needs a column 1 of texts
FixDuplicatedChars(frame) ==
    IF frame.ncols < 2 THEN Raised(frame, "KeyError")
    ELSE IF 2 \in frame.numeric THEN Raised(frame, "AttributeError")
    ELSE Returned([frame EXCEPT !.rows =
             [r \in 1..Len(frame.rows) |->
                 IF IsDuplicatedRow(frame.rows[r])
                 THEN [c \in 1..Len(frame.rows[r]) |->
                          OnText(frame.rows[r][c], CollapseRuns)]
                 ELSE frame.rows[r]]])

\* remove_spaces
RemoveSpacesPass(frame) ==
    IF ~DataColumnsAreText(frame) THEN Raised(frame, "AttributeError")
    ELSE Returned(MapColumns(frame, 2,
             LAMBDA cell : OnText(cell, RemoveSpaces)))

\* fix_duplicate_parens
FixDuplicateParens(frame) ==
    IF ~DataColumnsAreText(frame) THEN Raised(frame, "AttributeError")
    ELSE Returned(MapColumns(frame, 2, LAMBDA cell :
             OnText(cell, LAMBDA t :
                 ReplaceDoubled(ReplaceDoubled(t, "("), ")"))))

\* fix_percentages
FixPercentages(frame) ==
    IF ~DataColumnsAreText(frame) THEN Raised(frame, "AttributeError")
    ELSE Returned(MapColumns(frame, 2, LAMBDA cell :
             OnText(cell, LAMBDA t : RStripPercent(Strip(t)))))

\* replace_missing_cells: "" in every column, "N/A" and "-" in columns 1:
ReplaceMissingCells(frame) ==
    Returned(MapColumns(
        MapColumns(frame, 1,
                   LAMBDA cell : IF cell = <<>> THEN NaNCell ELSE cell),
        2,
        LAMBDA cell : IF cell \in {<<"N", "/", "A">>, <<"-">>}
                      THEN NaNCell ELSE cell))

\* remove_extra_letters(col_num=1): df.columns[1] needs two columns
RemoveExtraLetters(frame) ==
    IF frame.ncols < 2 THEN Raised(frame, "IndexError")
    ELSE IF 2 \in frame.numeric THEN Raised(frame, "AttributeError")
    ELSE Returned([frame EXCEPT !.rows =
             [r \in 1..Len(frame.rows) |->
                 [frame.rows[r] EXCEPT ![2] =
                     OnText(@, LAMBDA t :
                         SelectSeq(t, LAMBDA ch : ch \notin UpperLetters))]]])

\* convert_to_floats(usecols=data.columns[1:])
ConvertColumnsToFloats(frame) ==
    Returned([MapColumns(frame, 2,
                  LAMBDA cell : IF 2 \in frame.numeric THEN cell
                                ELSE ConvertToFloats(cell))
              EXCEPT !.numeric = 2..frame.ncols])

\* A variant of remove_missing_rows with usecols=None: a row is missing
\* when all its columns, the header included, are null.
RemoveMissingRowsAllColumns(frame) ==
    Returned([frame EXCEPT !.rows =
        SelectSeq(frame.rows, LAMBDA row :
            \/ row[1] # NaNCell
            \/ \E c \in 2..Len(row) : row[c] # Missing)])

\* remove_missing_rows(usecols=data.columns[1:])
RemoveMissingRows(frame) ==
    Returned([frame EXCEPT !.rows =
        SelectSeq(frame.rows, LAMBDA row :
            \E c \in 2..Len(row) : row[c] # Missing)])

\* "Remove any net accrual columns"
DropAccrualColumns(frame) ==
    IF frame.ncols # 14 THEN Returned(frame)
    ELSE Returned(
        [ncols |-> 10,
         rows |-> [r \in 1..Len(frame.rows) |->
                      SubSeq(frame.rows[r], 1, 7)
                          \o SubSeq(frame.rows[r], 12, 14)],
         numeric |-> 2..10])

\* MonthlyCollectionsReport.transform
MonthlyTransform(frame) ==
    Pipe(Pipe(Pipe(Pipe(Pipe(Pipe(Pipe(Pipe(Pipe(Pipe(
        Returned(frame),
        RemoveFootnotes), FixDuplicatedChars), RemoveSpacesPass),
        FixDuplicateParens), FixPercentages), ReplaceMissingCells),
        RemoveExtraLetters), ConvertColumnsToFloats), RemoveMissingRows),
        DropAccrualColumns)

---------------------------------------------------------------------------
(* CityCollectionsReport.extract: etl/collections/monthly/city.py           *)

\* The text_tolerance_x the city report passes to words_to_table.
city_text_tolerance_x == 5

UpperSeq ==
    <<"A", "B", "C", "D", "E", "F", "G", "H", "I", "J", "K", "L", "M",
      "N", "O", "P", "Q", "R", "S", "T", "U", "V", "W", "X", "Y", "Z">>

LowerSeq ==
    <<"a", "b", "c", "d", "e", "f", "g", "h", "i", "j", "k", "l", "m",
      "n", "o", "p", "q", "r", "s", "t", "u", "v", "w", "x", "y", "z">>

\* str.lower()
Lower(t) ==
    [i \in 1..Len(t) |->
        IF t[i] \in UpperLetters
        THEN LowerSeq[CHOOSE k \in 1..26 : UpperSeq[k] = t[i]]
        ELSE t[i]]

\* The phrases of the header lines the report drops.
HeaderPhrases ==
    { <<"p", "r", "e", "l", "i", "m">>, <<"f", "i", "n", "a", "l">>,
      <<"b", "u", "d", "g", "e", "t">> }

\* remove_empty_columns(data, use_nan=False): the columns that are ""
\* in every row are dropped (every column of a frame without rows).
RemoveEmptyColumns(frame) ==
    LET good == SelectSeq([c \in 1..frame.ncols |-> c], LAMBDA c :
                    \E r \in 1..Len(frame.rows) : frame.rows[r][c] # <<>>)
    IN  Frame(Len(good),
              [r \in 1..Len(frame.rows) |->
                  [n \in 1..Len(good) |-> frame.rows[r][good[n]]]],
              {})

\* The frame extract() appends for one page: the grid of the page without
\* its "prelim", "final" and "budget" lines and without its empty columns.
PageFrame(ws) ==
    LET grid == WordsToTableWith(ws, text_tolerance_y, city_text_tolerance_x,
                                 column_tolerance, min_col_sep,
                                 row_header_tolerance)
    IN  RemoveEmptyColumns(
            Frame(Width(grid),
                  SelectSeq(grid, LAMBDA row :
                      ~ \E phrase \in HeaderPhrases :
                            StartsWith(Lower(row[1]), phrase)),
                  {}))

\* The pages whose grid has a row: "if not len(data): continue"
RECURSIVE PageFrames(_)
PageFrames(pages) ==
    IF pages = <<>> THEN <<>>
    ELSE IF WordsToTableWith(Head(pages), text_tolerance_y,
                             city_text_tolerance_x, column_tolerance,
                             min_col_sep, row_header_tolerance) = <<>>
    THEN PageFrames(Tail(pages))
    ELSE <<PageFrame(Head(pages))>> \o PageFrames(Tail(pages))

RECURSIVE MaxWidth(_)
MaxWidth(frames) ==
    IF frames = <<>> THEN 0
    ELSE IF Head(frames).ncols > MaxWidth(Tail(frames))
    THEN Head(frames).ncols
    ELSE MaxWidth(Tail(frames))

\* pd.concat(out, axis=0, ignore_index=True): the rows of all frames, the
\* columns a frame lacks being NaN; it raises on an empty list.
ConcatFrames(frames) ==
    IF frames = <<>> THEN Raised(Frame(0, <<>>, {}), "ValueError")
    ELSE Returned(
        Frame(MaxWidth(frames),
              Concat([f \in 1..Len(frames) |->
                  [r \in 1..Len(frames[f].rows) |->
                      [c \in 1..MaxWidth(frames) |->
                          IF c <= frames[f].ncols
                          THEN frames[f].rows[r][c]
                          ELSE NaNCell]]]),
              {}))

\* CityCollectionsReport.extract
CityExtract(pages) == ConcatFrames(PageFrames(pages))

\* The token lists of the pages a monthly report may hold.
PageChoices ==
    { <<>>,
      <<Word(0, 40, 100, 112, <<"W", "a", "g", "e">>), Word(200, 260, 101, 113,
              <<"$", "1", ",", "2", "3", "4", ".", "0", "0">>)>>,
      <<Word(0, 40, 100, 112, <<"W", "a", "g", "e">>), Word(206, 260, 101, 113,
              <<"1", ",", "2", "3", "4", ".", "0", "0">>)>>,
      << Word(1, 30, 130, 142, <<"T", "a", "x">>),
         Word(200, 260, 131, 143,
              <<"(", "5", "0", "0", ".", "0", "0", ")">>),
         Word(295, 330, 131, 143, <<"1", "2", ".", "5", "%">>) >>,
      << Word(2, 60, 160, 172, <<"*", "P", "r", "e", "l", "i", "m">>),
         Word(3, 30, 190, 202, <<"N", "e", "t">>),
         Word(251, 258, 191, 203, <<"-">>) >>,
      << Word(0, 30, 100, 112, <<"F", "e", "e">>),
         Word(240, 260, 101, 113, <<"7", "A">>),
         Word(305, 330, 101, 113, <<"N", "/", "A">>) >>,
      << Word(0, 60, 100, 112,
              <<"W", "W", "a", "a", "g", "g", "e", "e">>),
         Word(160, 260, 101, 113,
              <<"1", "1", ",", ",", "2", "2", "3", "3", "4", "4", ".", ".",
                "0", "0", "0", "0">>) >>,
      << Word(0, 50, 100, 112, <<"B", "u", "d", "g", "e", "t">>),
         Word(240, 260, 101, 113, <<"9", "9">>) >>,
      << Word(0, 30, 100, 112, <<"F", "e", "e">>),
         Word(240, 260, 101, 113, <<"4", "2">>),
         Word(0, 40, 190, 202, <<"O", "t", "h", "e", "r">>) >> }

\* The PDFs: up to MaxPages pages.
Documents ==
    UNION { [1..n -> PageChoices] : n \in 1..MaxPages }

ReportIdle ==
    pdfPages = <<>> /\ stage = "idle" /\ reportData = Frame(0, <<>>, {})
        /\ raised = "none"

ReportInit ==
    /\ pdfPages \in Documents
    /\ stage = "created"
    /\ reportData = Frame(0, <<>>, {})
    /\ raised = "none"

\* data = report.extract()
CityExtractStep ==
    /\ stage = "created"
    /\ LET result == CityExtract(pdfPages)
       IN  /\ reportData' = IF result.error = "none" THEN result.frame
                          ELSE reportData
           /\ raised' = result.error
           /\ stage' = IF result.error = "none" THEN "extracted"
                       ELSE "extract failed"
    /\ UNCHANGED pdfPages

\* data = report.transform(data)
TransformStep ==
    /\ stage = "extracted"
    /\ LET result == MonthlyTransform(reportData)
       IN  /\ reportData' = IF result.error = "none" THEN result.frame
                          ELSE reportData
           /\ raised' = result.error
           /\ stage' = IF result.error = "none" THEN "transformed"
                       ELSE "transform failed"
    /\ UNCHANGED pdfPages

\* report.transform applied to its own output
TransformAgainStep ==
    /\ stage = "transformed"
    /\ LET result == MonthlyTransform(reportData)
       IN  /\ reportData' = IF result.error = "none" THEN result.frame
                          ELSE reportData
           /\ raised' = result.error
           /\ stage' = IF result.error = "none" THEN "retransformed"
                       ELSE "retransform failed"
    /\ UNCHANGED pdfPages

---------------------------------------------------------------------------
(* The batch runner's file-stem parser: cli/etl/core.py, cli/etl.py        *)
(* A stem is a sequence of one-character strings.                          *)

\* The elements of the patterns: a literal character, a digit of a named
\* group, the separator [_-], and the quarter digit [1234] of a group.
Lit(c) == [chars |-> {c}, group |-> ""]

Digit(g) == [chars |-> Digits, group |-> g]

Separator == [chars |-> {"_", "-"}, group |-> ""]

QuarterDigit(g) == [chars |-> {"1", "2", "3", "4"}, group |-> g]

\* "FY(?P<fiscal_year>[0-9]{2})[_-]Q(?P<quarter>[1234])"
PatternFYQ ==
    << Lit("F"), Lit("Y"), Digit("fiscal_year"), Digit("fiscal_year"),
       Separator, Lit("Q"), QuarterDigit("quarter") >>

\* "FY(?P<fiscal_year>[0-9]{2})"
PatternFY ==
    << Lit("F"), Lit("Y"), Digit("fiscal_year"), Digit("fiscal_year") >>

\* "(?P<year>[0-9]{4})[_-](?P<month>[0-9]{2})"
PatternYM ==
    << Digit("year"), Digit("year"), Digit("year"), Digit("year"),
       Separator, Digit("month"), Digit("month") >>

\* "(?P<year>[0-9]{4})[_-]Q(?P<quarter>[1234])"
PatternYQ ==
    << Digit("year"), Digit("year"), Digit("year"), Digit("year"),
       Separator, Lit("Q"), QuarterDigit("quarter") >>

\* The three patterns of extract_parameters in cli/etl.py.
LegacyPatterns == << PatternFYQ, PatternFY, PatternYM >>

\* A variant of the list that tries FYXX before FYXX-QX.
PatternsShortFirst == << PatternFY, PatternFYQ, PatternYM, PatternYQ >>

\* The patterns of _extract_parameters, in the order they are tried.
Patterns == << PatternFYQ, PatternFY, PatternYM, PatternYQ >>

\* re.match(pattern, s): the pattern matches at the start of s
Match(pattern, s) ==
    /\ Len(s) >= Len(pattern)
    /\ \A i \in 1..Len(pattern) : s[i] \in pattern[i].chars

\* match.groupdict(): the text of each named group
GroupDict(pattern, s) ==
    [g \in { pattern[i].group : i \in 1..Len(pattern) } \ {""} |->
        LET at == SelectSeq([i \in 1..Len(pattern) |-> i],
                            LAMBDA i : pattern[i].group = g)
        IN  [k \in 1..Len(at) |-> s[at[k]]]]

\* What the parser returns when no pattern matches.
None == [none |-> TRUE]

\* The loop over the patterns: the first that matches gives the
\* parameters, "20" being put before the fiscal year's two digits.
RECURSIVE ParametersFrom(_, _)
ParametersFrom(patterns, s) ==
    IF patterns = <<>> THEN None
    ELSE IF Match(Head(patterns), s)
    THEN LET d == GroupDict(Head(patterns), s)
         IN  [k \in DOMAIN d |->
                 IF k = "fiscal_year" THEN TextToNat(<<"2", "0">> \o d[k])
                 ELSE TextToNat(d[k])]
    ELSE ParametersFrom(Tail(patterns), s)

\* _extract_parameters (cli/etl/core.py)
ExtractParameters(s) == ParametersFrom(Patterns, s)

\* extract_parameters (cli/etl.py)
LegacyExtractParameters(s) == ParametersFrom(LegacyPatterns, s)

\* The stems of the files a raw-data directory may hold: a prefix, a
\* year, a separator and a period, any of which may be absent.
StemPrefixes == { <<>>, <<"F", "Y">>, <<"F">>, <<"Q">> }

StemYears ==
    { <<>>, <<"2", "1">>, <<"0", "5">>, <<"2", "0", "2", "1">>,
      <<"0", "0", "2", "1">>, <<"7">> }

StemSeparators == { <<>>, <<"_">>, <<"-">>, <<" ">> }

StemPeriods ==
    { <<>>, <<"Q", "1">>, <<"Q", "4">>, <<"Q", "5">>, <<"0", "7">>,
      <<"1", "2">>, <<"7">>, <<"Q", "1", "_", "v", "2">> }

Stems ==
    { a \o b \o c \o d : a \in StemPrefixes, b \in StemYears,
                         c \in StemSeparators, d \in StemPeriods }

---------------------------------------------------------------------------
(* The raw and processed paths of a report: etl/qcmr/base.py,              *)
(* etl/spending/summary.py, etl/collections/by_sector/rtt.py,              *)
(* etl/collections/monthly/core.py                                         *)

\* An Optional[int] field left at its default, None.
Absent == -1

\* str(fiscal_year)[2:]
Tag(fiscal_year) ==
    SubSeq(NatToText(fiscal_year), 3, Len(NatToText(fiscal_year)))

\* f"{month:02d}"
TwoDigits(n) == IF n < 10 THEN <<"0">> \o NatToText(n) ELSE NatToText(n)

\* The report classes, by the base class that formats their paths.
QCMRClasses == {"DepartmentObligations", "FullTimePositions"}

BudgetSummaryClasses ==
    {"BudgetedDepartmentSpending", "ActualDepartmentSpending"}

MonthlyClasses == {"CityTaxCollections"}

RTTClasses == {"RTTCollectionsBySector"}

\* ETLPipelineQCMR.dtype
Dtype(cls) ==
    IF cls = "DepartmentObligations" THEN "obligations" ELSE "positions"

\* BudgetSummaryBase.flavor
Flavor(cls) ==
    IF cls = "BudgetedDepartmentSpending" THEN "budget" ELSE "actual"

\* A path: the directory under the data root, and the file's name.
Path(dir, name) == [dir |-> dir, name |-> name]

Pdf == <<".", "p", "d", "f">>

Csv == <<".", "c", "s", "v">>

\* Variant: the quarterly raw file is named as the processed one is, with
\* "-" before the quarter.
RawPathOfHyphen(cls, p) ==
    IF cls \in QCMRClasses
    THEN Path(<<"raw", "qcmr", Dtype(cls)>>,
              <<"F", "Y">> \o Tag(p.fiscal_year) \o <<"-", "Q">>
                  \o NatToText(p.quarter) \o Pdf)
    ELSE IF cls \in BudgetSummaryClasses
    THEN Path(<<"raw", "budget-in-brief", p.kind>>,
              <<"F", "Y">> \o Tag(p.fiscal_year) \o Pdf)
    ELSE IF cls \in MonthlyClasses
    THEN Path(<<"raw", "collections", "monthly", "city">>,
              NatToText(p.year) \o <<"_">> \o TwoDigits(p.month) \o Pdf)
    ELSE IF p.month # Absent
    THEN Path(<<"raw", "collections", "by-sector", "rtt">>,
              NatToText(p.year) \o <<"_">> \o TwoDigits(p.month) \o Pdf)
    ELSE Path(<<"raw", "collections", "by-sector", "rtt">>,
              NatToText(p.year) \o <<"_", "Q">> \o NatToText(p.quarter)
                  \o Pdf)

\* self.path as __post_init__ formats it
RawPathOf(cls, p) ==
    IF cls \in QCMRClasses
    THEN Path(<<"raw", "qcmr", Dtype(cls)>>,
              <<"F", "Y">> \o Tag(p.fiscal_year) \o <<"_", "Q">>
                  \o NatToText(p.quarter) \o Pdf)
    ELSE IF cls \in BudgetSummaryClasses
    THEN Path(<<"raw", "budget-in-brief", p.kind>>,
              <<"F", "Y">> \o Tag(p.fiscal_year) \o Pdf)
    ELSE IF cls \in MonthlyClasses
    THEN Path(<<"raw", "collections", "monthly", "city">>,
              NatToText(p.year) \o <<"_">> \o TwoDigits(p.month) \o Pdf)
    ELSE IF p.month # Absent
    THEN Path(<<"raw", "collections", "by-sector", "rtt">>,
              NatToText(p.year) \o <<"_">> \o TwoDigits(p.month) \o Pdf)
    ELSE Path(<<"raw", "collections", "by-sector", "rtt">>,
              NatToText(p.year) \o <<"_", "Q">> \o NatToText(p.quarter)
                  \o Pdf)

\* The path load() hands to _load_csv_data
LoadPathOf(cls, p) ==
    IF cls \in QCMRClasses
    THEN Path(<<"processed", "qcmr", Dtype(cls)>>,
              <<"F", "Y">> \o Tag(p.fiscal_year) \o <<"-", "Q">>
                  \o NatToText(p.quarter) \o Csv)
    ELSE IF cls \in BudgetSummaryClasses
    THEN Path(<<"processed", "budget-in-brief", p.kind, Flavor(cls)>>,
              <<"F", "Y">> \o Tag(p.fiscal_year) \o Csv)
    ELSE IF cls \in MonthlyClasses
    THEN Path(<<"processed", "collections", "monthly", "city">>,
              NatToText(p.year) \o <<"-">> \o TwoDigits(p.month)
                  \o <<"-", "t", "a", "x">> \o Csv)
    ELSE IF p.month # Absent
    THEN Path(<<"processed", "collections", "by-sector", "rtt">>,
              NatToText(p.year) \o <<"-">> \o TwoDigits(p.month) \o Csv)
    ELSE Path(<<"processed", "collections", "by-sector", "rtt">>,
              NatToText(p.year) \o <<"-", "Q">> \o NatToText(p.quarter)
                  \o Csv)

\* The fiscal and calendar years, quarters and months of the reports.
FiscalYears == {2021, 2022}

Quarters == {1, 2}

Months == {7, 11}

\* The invocations: a report class with the parameters of its dataclass.
\* RTTCollectionsBySector takes a month, a quarter or both.
Invocations ==
    { [cls |-> c, params |-> [fiscal_year |-> fy, quarter |-> q]] :
          c \in QCMRClasses, fy \in FiscalYears, q \in Quarters }
    \cup { [cls |-> c, params |-> [fiscal_year |-> fy, kind |-> k]] :
               c \in BudgetSummaryClasses, fy \in FiscalYears,
               k \in {"adopted", "proposed"} }
    \cup { [cls |-> c, params |-> [year |-> y, month |-> m]] :
               c \in MonthlyClasses, y \in FiscalYears, m \in Months }
    \cup { [cls |-> c, params |-> [year |-> y, month |-> m, quarter |-> q]] :
               c \in RTTClasses, y \in FiscalYears,
               m \in Months \cup {Absent}, q \in Quarters \cup {Absent} }

\* RTTCollectionsBySector.__post_init__: "Either month or quarter must be
\* specified"
Constructible(inv) ==
    inv.cls \in RTTClasses =>
        ~(inv.params.month = Absent /\ inv.params.quarter = Absent)

NoPath == Path(<<>>, <<>>)

LoadIdle ==
    /\ reportA = [cls |-> "none", params |-> <<>>]
    /\ reportB = [cls |-> "none", params |-> <<>>]
    /\ pathA = NoPath /\ pathB = NoPath

\* Two reports that were constructed.
LoadInit ==
    /\ reportA \in { inv \in Invocations : Constructible(inv) }
    /\ reportB \in { inv \in Invocations : Constructible(inv) }
    /\ pathA = NoPath /\ pathB = NoPath

\* reportA.load(data)
LoadFirst ==
    /\ pathA = NoPath
    /\ pathA' = LoadPathOf(reportA.cls, reportA.params)
    /\ UNCHANGED <<reportA, reportB, pathB>>

\* reportB.load(data)
LoadSecond ==
    /\ pathB = NoPath
    /\ pathB' = LoadPathOf(reportB.cls, reportB.params)
    /\ UNCHANGED <<reportA, reportB, pathA>>

---------------------------------------------------------------------------
(* Fiscal months: etl/sentinel/core.py, clean.py                           *)

\* _to_fiscal_month
ToFiscalMonth(m) ==
    LET result == (m + 6) % 12
    IN  IF result = 0 THEN 1 ELSE result

\* fiscal_month=((month - 7) % 12 + 1) of _load_monthly_collections
FiscalMonth(m) == ((m - 7) % 12) + 1

\* month=(df.fiscal_month + 6) % 12 + 1 of load_qcmr_cash_reports
CalendarMonth(fiscal_month) == ((fiscal_month + 6) % 12) + 1

\* The months of a year, calendar or fiscal.
MonthNumbers == 1..12

FiscalIdle ==
    /\ calendarMonth = 0 /\ fiscalMonth = 0
    /\ sentinelFiscal = 0 /\ collectionsFiscal = 0 /\ cashMonth = 0

\* A calendar calendarMonth of a monthly report, and a fiscal calendarMonth of a cash
\* report (its total, calendarMonth 13, is dropped before the conversion).
FiscalInit ==
    /\ calendarMonth \in MonthNumbers /\ fiscalMonth \in MonthNumbers
    /\ sentinelFiscal = 0 /\ collectionsFiscal = 0 /\ cashMonth = 0

ToFiscalMonthStep ==
    /\ calendarMonth # 0 /\ sentinelFiscal = 0
    /\ sentinelFiscal' = ToFiscalMonth(calendarMonth)
    /\ UNCHANGED <<calendarMonth, fiscalMonth, collectionsFiscal, cashMonth>>

LoadMonthlyCollectionsStep ==
    /\ calendarMonth # 0 /\ collectionsFiscal = 0
    /\ collectionsFiscal' = FiscalMonth(calendarMonth)
    /\ UNCHANGED <<calendarMonth, fiscalMonth, sentinelFiscal, cashMonth>>

LoadQcmrCashReportsStep ==
    /\ fiscalMonth # 0 /\ cashMonth = 0
    /\ cashMonth' = CalendarMonth(fiscalMonth)
    /\ UNCHANGED <<calendarMonth, fiscalMonth, sentinelFiscal, collectionsFiscal>>

---------------------------------------------------------------------------
(* The token providers: extract_words and get_pdf_words (etl/utils/pdf.py) *)
(* and textract_to_words (etl/aws.py)                                      *)

\* "\xa0", the non-breaking space
Nbsp == "nbsp"

\* str.isspace() of a character
IsSpace(ch) == ch \in {" ", Nbsp}

\* text.replace("\xa0", " ")
ReplaceNbsp(t) == [i \in 1..Len(t) |-> IF t[i] = Nbsp THEN " " ELSE t[i]]

\* The texts of up to MaxTextLen characters a source may give a word.
RECURSIVE TextsOfLength(_)
TextsOfLength(n) ==
    IF n = 0 THEN { <<>> }
    ELSE { Append(t, ch) : t \in TextsOfLength(n - 1), ch \in {"a", " ", Nbsp} }

RawTexts == UNION { TextsOfLength(n) : n \in 1..MaxTextLen }

\* The words pdfplumber's pg.extract_words gives: without keep_blank_chars
\* a blank character ends a word and is in none; with it, blanks are
\* characters like any other.
PlumberWords(keep_blank_chars) ==
    { [text |-> t, top |-> y] :
        t \in { u \in RawTexts :
                  keep_blank_chars \/ \A i \in 1..Len(u) : ~IsSpace(u[i]) },
        y \in {0, 10} }

\* The WORD blocks of a Textract response: characters not separated by
\* spaces.
TextractWords ==
    { [text |-> t, top |-> y] :
        t \in { u \in RawTexts : \A i \in 1..Len(u) : ~IsSpace(u[i]) },
        y \in {0, 10} }

\* The lists of up to MaxRawWords words of a set.
WordLists(S) == UNION { [1..n -> S] : n \in 1..MaxRawWords }

\* extract_words: the text is cleaned and a word whose text is then empty
\* is left out; the words are sorted top to bottom.
ExtractWords(ws) ==
    LET cleaned == [i \in 1..Len(ws) |->
                       [ws[i] EXCEPT !.text = Strip(ReplaceNbsp(@))]]
    IN  SortedBy(SelectSeq(cleaned, LAMBDA w : w.text # <<>>), "top")

\* get_pdf_words: the words below the header cutoff, their text cleaned,
\* sorted top to bottom.
GetPdfWords(ws, header_cutoff) ==
    LET kept == SelectSeq(ws, LAMBDA w : w.top > header_cutoff)
    IN  SortedBy([i \in 1..Len(kept) |->
                     [kept[i] EXCEPT !.text = Strip(ReplaceNbsp(@))]],
                 "top")

\* The response whose WORD blocks are the given words, on one page.
ResponseOf(ws) ==
    [i \in 1..Len(ws) |-> WordBlock(1, 0, 10, ws[i].top, 12, ws[i].text)]

TokensIdle ==
    provider = "none" /\ sourceWords = <<>> /\ provided = <<>>
        /\ tokensPc = "idle"

TokensInit ==
    /\ provider \in {"extract_words", "get_pdf_words", "textract_to_words"}
    /\ sourceWords \in
           IF provider = "textract_to_words" THEN WordLists(TextractWords)
           ELSE WordLists(PlumberWords(TRUE)) \cup WordLists(PlumberWords(FALSE))
    /\ provided = <<>>
    /\ tokensPc = "input"

ExtractWordsStep ==
    /\ tokensPc = "input" /\ provider = "extract_words"
    /\ provided' = ExtractWords(sourceWords)
    /\ tokensPc' = "done"
    /\ UNCHANGED <<provider, sourceWords>>

\* header_cutoff is None: 0
GetPdfWordsStep ==
    /\ tokensPc = "input" /\ provider = "get_pdf_words"
    /\ provided' = GetPdfWords(sourceWords, 0)
    /\ tokensPc' = "done"
    /\ UNCHANGED <<provider, sourceWords>>

\* The pages textract_to_words yields, one after the other.
TextractToWordsStep ==
    /\ tokensPc = "input" /\ provider = "textract_to_words"
    /\ provided' = Concat(TextractToWords(ResponseOf(sourceWords)))
    /\ tokensPc' = "done"
    /\ UNCHANGED <<provider, sourceWords>>

---------------------------------------------------------------------------
(* match_missing_departments and its cache, interim/dept-matches.json:     *)
(* etl/utils/depts/core.py                                                 *)

\* The raw department names of the input that have no alias.
RawDeptNames == {"Polce", "Fire Dpt", "General Fund"}

\* The departments the selector offers.
DeptNames == {"Police", "Fire"}

\* A raw name without a match in the cache.
Unmatched == "unmatched"

\* "general fund" in d.lower()
IsGeneralFund(d) == d = "General Fund"

\* The lists of up to MaxMissing raw names, none twice.
MissingLists ==
    { s \in UNION { [1..n -> RawDeptNames] : n \in 0..MaxMissing } :
        \A i, j \in 1..Len(s) : i # j => s[i] # s[j] }

DeptsIdle ==
    /\ deptFile = [a \in RawDeptNames |-> Unmatched]
    /\ cachedMatches = [a \in RawDeptNames |-> Unmatched]
    /\ missingDepts = <<>>
    /\ deptPc = "idle"
    /\ selected = {}
    /\ deptCalls = 0

\* dept-matches.json as an earlier session left it.
DeptsInit ==
    /\ deptFile \in { [a \in RawDeptNames |-> Unmatched],
                      [a \in RawDeptNames |->
                          IF a = "Polce" THEN "Police" ELSE Unmatched] }
    /\ cachedMatches = [a \in RawDeptNames |-> Unmatched]
    /\ missingDepts = <<>>
    /\ deptPc = "ready"
    /\ selected = {}
    /\ deptCalls = 0

\* match_missing_departments(data), up to the loop: nothing is read when no
\* alias is missing; otherwise the cache is loaded, and the loop runs when
\* a name other than the general fund is missing.
MatchMissingDepartments(missing) ==
    /\ deptPc \in {"ready", "returned", "raised"}
    /\ deptCalls < MaxCalls
    /\ deptCalls' = deptCalls + 1
    /\ selected' = {}
    /\ LET missing_depts == SelectSeq(missing, LAMBDA d : ~IsGeneralFund(d))
       IN  /\ missingDepts' = missing_depts
           /\ cachedMatches' =
                  IF missing = <<>> THEN [a \in RawDeptNames |-> Unmatched]
                  ELSE deptFile
           /\ deptPc' = IF missing_depts = <<>> THEN "returned" ELSE "loop"
    /\ UNCHANGED deptFile

\* if missing_dept in cached_matches
CachedMatch ==
    /\ deptPc = "loop" /\ missingDepts # <<>>
    /\ cachedMatches[Head(missingDepts)] # Unmatched
    /\ missingDepts' = Tail(missingDepts)
    /\ UNCHANGED <<deptFile, cachedMatches, deptPc, selected, deptCalls>>

\* launch_selector returns a department: it is put in cached_matches
SelectorMatch(dept) ==
    /\ deptPc = "loop" /\ missingDepts # <<>>
    /\ cachedMatches[Head(missingDepts)] = Unmatched
    /\ cachedMatches' = [cachedMatches EXCEPT ![Head(missingDepts)] = dept]
    /\ selected' = selected \cup {Head(missingDepts)}
    /\ missingDepts' = Tail(missingDepts)
    /\ UNCHANGED <<deptFile, deptPc, deptCalls>>

\* launch_selector returns None: ValueError
SelectorNoMatch ==
    /\ deptPc = "loop" /\ missingDepts # <<>>
    /\ cachedMatches[Head(missingDepts)] = Unmatched
    /\ deptPc' = "raised"
    /\ UNCHANGED <<deptFile, cachedMatches, missingDepts, selected, deptCalls>>

\* "Save the cached matches", after the loop, and return
SaveCachedMatches ==
    /\ deptPc = "loop" /\ missingDepts = <<>>
    /\ deptFile' = cachedMatches
    /\ deptPc' = "returned"
    /\ UNCHANGED <<cachedMatches, missingDepts, selected, deptCalls>>

---------------------------------------------------------------------------
(* extract_transform_load_all and the files it looks at:                   *)
(* etl/qcmr/base.py, etl/spending/summary.py, etl/utils/misc.py            *)

\* path.stem of a file with a four-character suffix
Stem(name) == SubSeq(name, 1, Len(name) - 4)

\* The parameters of the raw PDFs a class finds in its raw directory, in
\* the order sorted(glob("**/*.pdf")) yields their paths.
RawParams(cls) ==
    IF cls \in QCMRClasses
    THEN << [fiscal_year |-> 2021, quarter |-> 1],
            [fiscal_year |-> 2021, quarter |-> 2] >>
    ELSE << [fiscal_year |-> 2021, kind |-> "adopted"],
            [fiscal_year |-> 2021, kind |-> "proposed"] >>

\* cls.get_pdf_files()
GetPdfFiles(cls) ==
    [i \in 1..Len(RawParams(cls)) |-> RawPathOf(cls, RawParams(cls)[i])]

\* fiscal_year_quarter_from_path(path); the files of the raw directory
\* match its pattern.
FiscalYearQuarterFromPath(path) ==
    LET d == GroupDict(PatternFYQ, Stem(path.name))
    IN  [fiscal_year |-> TextToNat(<<"2", "0">> \o d["fiscal_year"]),
         quarter |-> TextToNat(d["quarter"])]

\* The arguments extract_transform_load_all constructs the report with:
\* cls(fy, q), or cls(fy, kind) with fy = int("20" + pdf_path.stem[2:])
\* and kind = pdf_path.parts[-2].
ReportParams(cls, pdf_path) ==
    IF cls \in QCMRClasses THEN FiscalYearQuarterFromPath(pdf_path)
    ELSE [fiscal_year |->
              TextToNat(<<"2", "0">> \o
                  SubSeq(Stem(pdf_path.name), 3, Len(Stem(pdf_path.name)))),
          kind |-> pdf_path.dir[Len(pdf_path.dir)]]

\* output_path of extract_transform_load_all. The budget summary replaces
\* "raw" by "processed" and ".pdf" by ".csv" in the text of the PDF's path;
\* no other part of these paths holds "raw" or ".pdf".
OutputPath(cls, pdf_path) ==
    IF cls \in QCMRClasses
    THEN LET p == FiscalYearQuarterFromPath(pdf_path)
         IN  Path(<<"processed", "qcmr", Dtype(cls)>>,
                  <<"F", "Y">> \o Tag(p.fiscal_year) \o <<"-", "Q">>
                      \o NatToText(p.quarter) \o Csv)
    ELSE Path([i \in 1..Len(pdf_path.dir) |->
                  IF pdf_path.dir[i] = "raw" THEN "processed"
                  ELSE pdf_path.dir[i]],
              Stem(pdf_path.name) \o Csv)

\* The CSV files the call may look at or write.
CsvPaths(cls) ==
    { OutputPath(cls, GetPdfFiles(cls)[i]) : i \in 1..Len(GetPdfFiles(cls)) }
    \cup { LoadPathOf(cls, RawParams(cls)[i]) : i \in 1..Len(RawParams(cls)) }

\* fresh or not output_path.exists()
\*     or output_path.stat().st_mtime < pdf_path.stat().st_mtime
NeedsRun(fresh, output_mtime, pdf_mtime) ==
    fresh \/ output_mtime = Absent \/ output_mtime < pdf_mtime

FreshIdle ==
    /\ etlClass = "none" /\ pdfTimes = <<>> /\ csvTimes = <<>>
    /\ clock = 0 /\ pending = <<>> /\ etlRuns = {} /\ freshFlag = FALSE
    /\ freshPc = "idle"

\* The raw PDFs are there; each CSV load writes is missing, older than
\* the PDFs or newer. Nothing else is in the processed directory.
FreshInit ==
    /\ etlClass \in {"DepartmentObligations", "BudgetedDepartmentSpending",
                     "ActualDepartmentSpending"}
    /\ pdfTimes = [p \in { GetPdfFiles(etlClass)[i] :
                             i \in 1..Len(GetPdfFiles(etlClass)) } |-> 1]
    /\ csvTimes \in
           { f \in [CsvPaths(etlClass) -> {Absent, 0, 2}] :
               \A c \in CsvPaths(etlClass) :
                   (\A i \in 1..Len(RawParams(etlClass)) :
                        c # LoadPathOf(etlClass, RawParams(etlClass)[i]))
                       => f[c] = Absent }
    /\ clock = 3 /\ pending = <<>> /\ etlRuns = {} /\ freshFlag = FALSE
    /\ freshPc = "ready"

\* cls.extract_transform_load_all(fresh), up to the loop
ExtractTransformLoadAll(fresh) ==
    /\ freshPc \in {"ready", "done"}
    /\ clock < MaxClock
    /\ freshFlag' = fresh
    /\ pending' = GetPdfFiles(etlClass)
    /\ etlRuns' = {}
    /\ freshPc' = "loop"
    /\ UNCHANGED <<etlClass, pdfTimes, csvTimes, clock>>

\* One raw PDF of the loop: when the test says so, the report is made and
\* extract_transform_load runs, load writing its CSV.
LoopOverPdf ==
    /\ freshPc = "loop" /\ pending # <<>>
    /\ LET pdf_path == Head(pending)
       IN  IF NeedsRun(freshFlag, csvTimes[OutputPath(etlClass, pdf_path)],
                       pdfTimes[pdf_path])
           THEN /\ csvTimes' =
                       [csvTimes EXCEPT
                           ![LoadPathOf(etlClass,
                                 ReportParams(etlClass, pdf_path))] = clock]
                /\ clock' = clock + 1
                /\ etlRuns' = etlRuns \cup {pdf_path}
           ELSE UNCHANGED <<csvTimes, clock, etlRuns>>
    /\ pending' = Tail(pending)
    /\ UNCHANGED <<etlClass, pdfTimes, freshFlag, freshPc>>

\* The loop is over: the call returns.
ReturnFromAll ==
    /\ freshPc = "loop" /\ pending = <<>>
    /\ freshPc' = "done"
    /\ UNCHANGED <<etlClass, pdfTimes, csvTimes, clock, pending, etlRuns,
                   freshFlag>>

\* Between two calls a raw PDF is replaced by a newer download.
ReplacePdf(pdf_path) ==
    /\ freshPc = "done"
    /\ clock < MaxClock
    /\ pdf_path \in DOMAIN pdfTimes
    /\ pdfTimes' = [pdfTimes EXCEPT ![pdf_path] = clock]
    /\ clock' = clock + 1
    /\ freshPc' = "ready"
    /\ UNCHANGED <<etlClass, csvTimes, pending, etlRuns, freshFlag>>

---------------------------------------------------------------------------
(* _run_monthly_update: cli/update/core.py                                 *)

\* The ETL classes each update command hands to _run_monthly_update.
UpdateCommands ==
    { <<"WageCollectionsBySector">>,
      <<"CityTaxCollections", "CityNonTaxCollections",
        "CityOtherGovtsCollections">>,
      <<"SchoolTaxCollections">> }

\* The months, "month/year", the city's page lists after the latest month
\* on disk.
PageMonths == [i \in 1..MaxNewMonths |-> [month |-> 7 + i, year |-> 2021]]

\* new_months: what the page holds of them, oldest first.
NewMonthLists == { SubSeq(PageMonths, 1, n) : n \in 0..Len(PageMonths) }

\* local_pdf_path = dirname / f"{year}_{month:02d}.pdf", dirname being the
\* raw directory of the first class
LocalPdfPath(dt) ==
    NatToText(dt.year) \o <<"_">> \o TwoDigits(dt.month) \o Pdf

\* The CSV a class's load writes for a month: each class has a file name
\* of its own, f"{year}-{month:02d}-tax.csv", "-nontax.csv", ...
ProcessedCsv(cls, dt) == [cls |-> cls, year |-> dt.year, month |-> dt.month]

UpdateIdle ==
    /\ etls = <<>> /\ newMonths = <<>> /\ etlsLeft = <<>>
    /\ rawDir = {} /\ processedDir = {} /\ writtenCsvs = {}
    /\ updatePc = "idle"

\* The raw PDF and the CSVs of the latest month are on disk, and perhaps
\* a CSV an earlier update left for the month after it.
UpdateInit ==
    /\ etls \in UpdateCommands
    /\ newMonths \in NewMonthLists
    /\ etlsLeft = <<>>
    /\ rawDir = { LocalPdfPath([month |-> 7, year |-> 2021]) }
    /\ \E leftover \in SUBSET { ProcessedCsv(etls[1], PageMonths[1]) } :
           processedDir =
               { ProcessedCsv(etls[i], [month |-> 7, year |-> 2021]) :
                   i \in 1..Len(etls) } \cup leftover
    /\ writtenCsvs = {}
    /\ updatePc = "months"

\* The PDF of the next new month is downloaded and renamed to
\* local_pdf_path.
DownloadPdf ==
    /\ updatePc = "months" /\ newMonths # <<>>
    /\ rawDir' = rawDir \cup { LocalPdfPath(Head(newMonths)) }
    /\ etlsLeft' = etls
    /\ updatePc' = "etl"
    /\ UNCHANGED <<etls, newMonths, processedDir, writtenCsvs>>

\* report = cls(year=year, month=month); report.extract_transform_load()
\* runs to its end: load writes the CSV. After the last class the loop
\* goes to the next month.
EtlSucceeds ==
    /\ updatePc = "etl" /\ etlsLeft # <<>>
    /\ processedDir' =
           processedDir \cup { ProcessedCsv(Head(etlsLeft), Head(newMonths)) }
    /\ writtenCsvs' = writtenCsvs \cup { ProcessedCsv(Head(etlsLeft), Head(newMonths)) }
    /\ etlsLeft' = Tail(etlsLeft)
    /\ IF Tail(etlsLeft) = <<>>
       THEN newMonths' = Tail(newMonths) /\ updatePc' = "months"
       ELSE UNCHANGED <<newMonths, updatePc>>
    /\ UNCHANGED <<etls, rawDir>>

\* extract, transform or validate raises before load: `except Exception`
\* unlinks local_pdf_path and raises again.
EtlFails ==
    /\ updatePc = "etl" /\ etlsLeft # <<>>
    /\ rawDir' = rawDir \ { LocalPdfPath(Head(newMonths)) }
    /\ updatePc' = "raised"
    /\ UNCHANGED <<etls, newMonths, etlsLeft, processedDir, writtenCsvs>>

\* No month is left: the update returns.
UpdateReturns ==
    /\ updatePc = "months" /\ newMonths = <<>>
    /\ updatePc' = "done"
    /\ UNCHANGED <<etls, newMonths, etlsLeft, rawDir, processedDir, writtenCsvs>>

---------------------------------------------------------------------------
(* _run_etl, one raw file: cli/etl/core.py                                 *)

\* The commands: a report class and, for a budget summary, --kind.
BatchRuns ==
    { [cls |-> c, kind |-> "none"] :
          c \in {"DepartmentObligations", "CityTaxCollections",
                 "RTTCollectionsBySector"} }
    \cup { [cls |-> "BudgetedDepartmentSpending", kind |-> k] :
               k \in {"adopted", "proposed"} }

\* The directories cls.get_pdf_files() finds PDFs in.
RawDirs(cls) ==
    IF cls \in BudgetSummaryClasses
    THEN { <<"raw", "budget-in-brief", k>> : k \in {"adopted", "proposed"} }
    ELSE IF cls \in QCMRClasses THEN { <<"raw", "qcmr", Dtype(cls)>> }
    ELSE IF cls \in MonthlyClasses
    THEN { <<"raw", "collections", "monthly", "city">> }
    ELSE { <<"raw", "collections", "by-sector", "rtt">> }

\* all_params = {**params, **kwargs}
AllParams(parsed, run) ==
    [k \in DOMAIN parsed \cup (IF run.kind = "none" THEN {} ELSE {"kind"}) |->
        IF k = "kind" THEN run.kind ELSE parsed[k]]

\* cls(**all_params) takes the keywords: a dataclass raises TypeError for
\* a field without a value and for a keyword that is no field.
TakesKeywords(cls, all_params) ==
    IF cls \in QCMRClasses THEN DOMAIN all_params = {"fiscal_year", "quarter"}
    ELSE IF cls \in BudgetSummaryClasses
    THEN DOMAIN all_params = {"fiscal_year", "kind"}
    ELSE IF cls \in MonthlyClasses THEN DOMAIN all_params = {"year", "month"}
    ELSE /\ "year" \in DOMAIN all_params
         /\ DOMAIN all_params \subseteq {"year", "month", "quarter"}

\* The fields of the report, an Optional field without a value being None.
FieldsOf(cls, all_params) ==
    IF cls \in RTTClasses
    THEN [k \in {"year", "month", "quarter"} |->
             IF k \in DOMAIN all_params THEN all_params[k] ELSE Absent]
    ELSE all_params

BatchIdle ==
    /\ fileStem = <<>> /\ cliPc = "idle" /\ cliParams = None
    /\ legacyParams = None
    /\ batchRun = [cls |-> "none", kind |-> "none"]
    /\ fileDir = <<>> /\ reportPath = NoPath

\* A raw PDF that get_pdf_files yields for the class of the command.
BatchInit ==
    /\ fileStem \in Stems /\ cliPc = "file" /\ cliParams = None
    /\ legacyParams = None
    /\ batchRun \in BatchRuns
    /\ fileDir \in RawDirs(batchRun.cls)
    /\ reportPath = NoPath

\* params = _extract_parameters(f.stem), and what the parser of cli/etl.py
\* gives for the same stem
ExtractParametersStep ==
    /\ cliPc = "file"
    /\ cliParams' = ExtractParameters(fileStem)
    /\ legacyParams' = LegacyExtractParameters(fileStem)
    /\ cliPc' = IF ExtractParameters(fileStem) = None THEN "ValueError"
                ELSE "parsed"
    /\ UNCHANGED <<fileStem, batchRun, fileDir, reportPath>>

\* report = cls(**all_params): __post_init__ formats self.path and raises
\* FileNotFoundError, which _run_etl passes over, when no such file is
\* there. The raw file at hand is there; `exists` says whether the path is
\* there when it is another file's.
ConstructReport(exists) ==
    /\ cliPc = "parsed"
    /\ LET all_params == AllParams(cliParams, batchRun)
       IN  IF ~TakesKeywords(batchRun.cls, all_params)
           THEN cliPc' = "TypeError" /\ reportPath' = NoPath
           ELSE LET path == RawPathOf(batchRun.cls,
                                FieldsOf(batchRun.cls, all_params))
                IN  IF path = Path(fileDir, fileStem \o Pdf) \/ exists
                    THEN cliPc' = "constructed" /\ reportPath' = path
                    ELSE cliPc' = "FileNotFoundError" /\ reportPath' = NoPath
    /\ UNCHANGED <<fileStem, cliParams, legacyParams, batchRun, fileDir>>

---------------------------------------------------------------------------
(* Specifications *)

\* The pipeline, with every raw PDF in place.
PipeIdle == PipeInit /\ rawFiles = Reports \X ParamTuples

Init ==
    PipeInit /\ PollInit /\ TableIdle /\ CoerceIdle /\ ReportIdle
        /\ BatchIdle /\ LoadIdle /\ FiscalIdle /\ TokensIdle /\ DeptsIdle
        /\ FreshIdle /\ UpdateIdle

Next ==
    \/ /\ \E r \in Reports, p \in ParamTuples, v \in BOOLEAN, xo \in BOOLEAN :
             Construct(r, p, v, xo)
       /\ UNCHANGED <<pollVars, tableVars, coerceVars, reportVars,
                    batchVars, loadVars, fiscalVars, tokenVars,
                    deptVars, freshVars, updateVars>>
    \/ ExtractLocal
           /\ UNCHANGED <<pollVars, tableVars, coerceVars, reportVars,
                        batchVars, loadVars, fiscalVars,
                        tokenVars, deptVars, freshVars,
                        updateVars>>
    \/ GetTextractOutput
           /\ UNCHANGED <<pollVars, tableVars, coerceVars, reportVars,
                        batchVars, loadVars, fiscalVars,
                        tokenVars, deptVars, freshVars,
                        updateVars>>
    \/ ExtractOnlyDone
           /\ UNCHANGED <<pollVars, tableVars, coerceVars, reportVars,
                        batchVars, loadVars, fiscalVars,
                        tokenVars, deptVars, freshVars,
                        updateVars>>
    \/ Transform
           /\ UNCHANGED <<pollVars, tableVars, coerceVars, reportVars,
                        batchVars, loadVars, fiscalVars,
                        tokenVars, deptVars, freshVars,
                        updateVars>>
    \/ ValidateStep
           /\ UNCHANGED <<pollVars, tableVars, coerceVars, reportVars,
                        batchVars, loadVars, fiscalVars,
                        tokenVars, deptVars, freshVars,
                        updateVars>>
    \/ Load
           /\ UNCHANGED <<pollVars, tableVars, coerceVars, reportVars,
                        batchVars, loadVars, fiscalVars,
                        tokenVars, deptVars, freshVars,
                        updateVars>>

Spec == Init /\ [][Next]_vars

InitPoll ==
    PipeIdle /\ PollInit /\ TableIdle /\ CoerceIdle /\ ReportIdle
        /\ BatchIdle /\ LoadIdle /\ FiscalIdle /\ TokensIdle /\ DeptsIdle
        /\ FreshIdle /\ UpdateIdle

NextPoll ==
    \/ StartAnalysis
           /\ UNCHANGED <<pipeVars, tableVars, coerceVars, reportVars,
                        batchVars, loadVars, fiscalVars,
                        tokenVars, deptVars, freshVars,
                        updateVars>>
    \/ BackendFinish
           /\ UNCHANGED <<pipeVars, tableVars, coerceVars, reportVars,
                        batchVars, loadVars, fiscalVars,
                        tokenVars, deptVars, freshVars,
                        updateVars>>
    \/ Poll
           /\ UNCHANGED <<pipeVars, tableVars, coerceVars, reportVars,
                        batchVars, loadVars, fiscalVars,
                        tokenVars, deptVars, freshVars,
                        updateVars>>
    \/ YieldWords
           /\ UNCHANGED <<pipeVars, tableVars, coerceVars, reportVars,
                        batchVars, loadVars, fiscalVars,
                        tokenVars, deptVars, freshVars,
                        updateVars>>

SpecPoll == InitPoll /\ [][NextPoll]_vars

InitTable ==
    PipeIdle /\ PollInit /\ TableInit /\ CoerceIdle /\ ReportIdle
        /\ BatchIdle /\ LoadIdle /\ FiscalIdle /\ TokensIdle /\ DeptsIdle
        /\ FreshIdle /\ UpdateIdle

NextTable ==
    \/ WordsToTableStep
           /\ UNCHANGED <<pipeVars, pollVars, coerceVars, reportVars,
                        batchVars, loadVars, fiscalVars,
                        tokenVars, deptVars, freshVars,
                        updateVars>>

SpecTable == InitTable /\ [][NextTable]_vars

InitCoerce ==
    PipeIdle /\ PollInit /\ TableIdle /\ CoerceInit /\ ReportIdle
        /\ BatchIdle /\ LoadIdle /\ FiscalIdle /\ TokensIdle /\ DeptsIdle
        /\ FreshIdle /\ UpdateIdle

NextCoerce ==
    \/ ConvertToFloatsStep
           /\ UNCHANGED <<pipeVars, pollVars, tableVars, reportVars, batchVars,
                        loadVars, fiscalVars, tokenVars,
                        deptVars, freshVars, updateVars>>

SpecCoerce == InitCoerce /\ [][NextCoerce]_vars

InitReport ==
    PipeIdle /\ PollInit /\ TableIdle /\ CoerceIdle /\ ReportInit
        /\ BatchIdle /\ LoadIdle /\ FiscalIdle /\ TokensIdle /\ DeptsIdle
        /\ FreshIdle /\ UpdateIdle

NextReport ==
    \/ CityExtractStep
           /\ UNCHANGED <<pipeVars, pollVars, tableVars, coerceVars, batchVars,
                        loadVars, fiscalVars, tokenVars,
                        deptVars, freshVars, updateVars>>
    \/ TransformStep
           /\ UNCHANGED <<pipeVars, pollVars, tableVars, coerceVars, batchVars,
                        loadVars, fiscalVars, tokenVars,
                        deptVars, freshVars, updateVars>>
    \/ TransformAgainStep
           /\ UNCHANGED <<pipeVars, pollVars, tableVars, coerceVars, batchVars,
                        loadVars, fiscalVars, tokenVars,
                        deptVars, freshVars, updateVars>>

SpecReport == InitReport /\ [][NextReport]_vars

InitBatch ==
    PipeIdle /\ PollInit /\ TableIdle /\ CoerceIdle /\ ReportIdle
        /\ BatchInit /\ LoadIdle /\ FiscalIdle /\ TokensIdle /\ DeptsIdle
        /\ FreshIdle /\ UpdateIdle

NextBatch ==
    \/ ExtractParametersStep
           /\ UNCHANGED <<pipeVars, pollVars, tableVars, coerceVars,
                        reportVars, loadVars, fiscalVars,
                        tokenVars, deptVars, freshVars,
                        updateVars>>
    \/ \E exists \in BOOLEAN : ConstructReport(exists)
           /\ UNCHANGED <<pipeVars, pollVars, tableVars, coerceVars,
                        reportVars, loadVars, fiscalVars,
                        tokenVars, deptVars, freshVars,
                        updateVars>>

SpecBatch == InitBatch /\ [][NextBatch]_vars

InitLoad ==
    PipeIdle /\ PollInit /\ TableIdle /\ CoerceIdle /\ ReportIdle
        /\ BatchIdle /\ LoadInit /\ FiscalIdle /\ TokensIdle /\ DeptsIdle
        /\ FreshIdle /\ UpdateIdle

NextLoad ==
    \/ LoadFirst
           /\ UNCHANGED <<pipeVars, pollVars, tableVars, coerceVars,
                        reportVars, batchVars, fiscalVars,
                        tokenVars, deptVars, freshVars,
                        updateVars>>
    \/ LoadSecond
           /\ UNCHANGED <<pipeVars, pollVars, tableVars, coerceVars,
                        reportVars, batchVars, fiscalVars,
                        tokenVars, deptVars, freshVars,
                        updateVars>>

SpecLoad == InitLoad /\ [][NextLoad]_vars

InitFiscal ==
    PipeIdle /\ PollInit /\ TableIdle /\ CoerceIdle /\ ReportIdle
        /\ BatchIdle /\ LoadIdle /\ FiscalInit /\ TokensIdle /\ DeptsIdle
        /\ FreshIdle /\ UpdateIdle

NextFiscal ==
    \/ ToFiscalMonthStep
           /\ UNCHANGED <<pipeVars, pollVars, tableVars, coerceVars,
                        reportVars, batchVars, loadVars,
                        tokenVars, deptVars, freshVars,
                        updateVars>>
    \/ LoadMonthlyCollectionsStep
           /\ UNCHANGED <<pipeVars, pollVars, tableVars, coerceVars,
                        reportVars, batchVars, loadVars,
                        tokenVars, deptVars, freshVars,
                        updateVars>>
    \/ LoadQcmrCashReportsStep
           /\ UNCHANGED <<pipeVars, pollVars, tableVars, coerceVars,
                        reportVars, batchVars, loadVars,
                        tokenVars, deptVars, freshVars,
                        updateVars>>

SpecFiscal == InitFiscal /\ [][NextFiscal]_vars

InitTokens ==
    PipeIdle /\ PollInit /\ TableIdle /\ CoerceIdle /\ ReportIdle
        /\ BatchIdle /\ LoadIdle /\ FiscalIdle /\ TokensInit /\ DeptsIdle
        /\ FreshIdle /\ UpdateIdle

NextTokens ==
    \/ ExtractWordsStep
           /\ UNCHANGED <<pipeVars, pollVars, tableVars, coerceVars,
                        reportVars, batchVars, loadVars,
                        fiscalVars, deptVars, freshVars,
                        updateVars>>
    \/ GetPdfWordsStep
           /\ UNCHANGED <<pipeVars, pollVars, tableVars, coerceVars,
                        reportVars, batchVars, loadVars,
                        fiscalVars, deptVars, freshVars,
                        updateVars>>
    \/ TextractToWordsStep
           /\ UNCHANGED <<pipeVars, pollVars, tableVars, coerceVars,
                        reportVars, batchVars, loadVars,
                        fiscalVars, deptVars, freshVars,
                        updateVars>>

SpecTokens == InitTokens /\ [][NextTokens]_vars

InitDepts ==
    PipeIdle /\ PollInit /\ TableIdle /\ CoerceIdle /\ ReportIdle
        /\ BatchIdle /\ LoadIdle /\ FiscalIdle /\ TokensIdle /\ DeptsInit
        /\ FreshIdle /\ UpdateIdle

NextDepts ==
    \/ \E missing \in MissingLists : MatchMissingDepartments(missing)
           /\ UNCHANGED <<pipeVars, pollVars, tableVars, coerceVars,
                        reportVars, batchVars, loadVars,
                        fiscalVars, tokenVars, freshVars,
                        updateVars>>
    \/ CachedMatch
           /\ UNCHANGED <<pipeVars, pollVars, tableVars, coerceVars,
                        reportVars, batchVars, loadVars,
                        fiscalVars, tokenVars, freshVars,
                        updateVars>>
    \/ \E dept \in DeptNames : SelectorMatch(dept)
           /\ UNCHANGED <<pipeVars, pollVars, tableVars, coerceVars,
                        reportVars, batchVars, loadVars,
                        fiscalVars, tokenVars, freshVars,
                        updateVars>>
    \/ SelectorNoMatch
           /\ UNCHANGED <<pipeVars, pollVars, tableVars, coerceVars,
                        reportVars, batchVars, loadVars,
                        fiscalVars, tokenVars, freshVars,
                        updateVars>>
    \/ SaveCachedMatches
           /\ UNCHANGED <<pipeVars, pollVars, tableVars, coerceVars,
                        reportVars, batchVars, loadVars,
                        fiscalVars, tokenVars, freshVars,
                        updateVars>>

SpecDepts == InitDepts /\ [][NextDepts]_vars

InitFresh ==
    PipeIdle /\ PollInit /\ TableIdle /\ CoerceIdle /\ ReportIdle
        /\ BatchIdle /\ LoadIdle /\ FiscalIdle /\ TokensIdle /\ DeptsIdle
        /\ FreshInit /\ UpdateIdle

NextFresh ==
    \/ \E fresh \in BOOLEAN : ExtractTransformLoadAll(fresh)
           /\ UNCHANGED <<pipeVars, pollVars, tableVars, coerceVars,
                        reportVars, batchVars, loadVars,
                        fiscalVars, tokenVars, deptVars,
                        updateVars>>
    \/ LoopOverPdf
           /\ UNCHANGED <<pipeVars, pollVars, tableVars, coerceVars,
                        reportVars, batchVars, loadVars,
                        fiscalVars, tokenVars, deptVars,
                        updateVars>>
    \/ ReturnFromAll
           /\ UNCHANGED <<pipeVars, pollVars, tableVars, coerceVars,
                        reportVars, batchVars, loadVars,
                        fiscalVars, tokenVars, deptVars,
                        updateVars>>
    \/ \E pdf_path \in DOMAIN pdfTimes : ReplacePdf(pdf_path)
           /\ UNCHANGED <<pipeVars, pollVars, tableVars, coerceVars,
                        reportVars, batchVars, loadVars,
                        fiscalVars, tokenVars, deptVars,
                        updateVars>>

SpecFresh == InitFresh /\ [][NextFresh]_vars

InitUpdate ==
    PipeIdle /\ PollInit /\ TableIdle /\ CoerceIdle /\ ReportIdle
        /\ BatchIdle /\ LoadIdle /\ FiscalIdle /\ TokensIdle /\ DeptsIdle
        /\ FreshIdle /\ UpdateInit

NextUpdate ==
    \/ DownloadPdf
           /\ UNCHANGED <<pipeVars, pollVars, tableVars, coerceVars,
                        reportVars, batchVars, loadVars,
                        fiscalVars, tokenVars, deptVars,
                        freshVars>>
    \/ EtlSucceeds
           /\ UNCHANGED <<pipeVars, pollVars, tableVars, coerceVars,
                        reportVars, batchVars, loadVars,
                        fiscalVars, tokenVars, deptVars,
                        freshVars>>
    \/ EtlFails
           /\ UNCHANGED <<pipeVars, pollVars, tableVars, coerceVars,
                        reportVars, batchVars, loadVars,
                        fiscalVars, tokenVars, deptVars,
                        freshVars>>
    \/ UpdateReturns
           /\ UNCHANGED <<pipeVars, pollVars, tableVars, coerceVars,
                        reportVars, batchVars, loadVars,
                        fiscalVars, tokenVars, deptVars,
                        freshVars>>

SpecUpdate == InitUpdate /\ [][NextUpdate]_vars

---------------------------------------------------------------------------
(* Claims about the pipeline, checked under Spec *)

\* The step that enters load.
LoadBegins == "load" \in invoked' /\ "load" \notin invoked

\* C1: load is invoked exactly when extract and transform have completed
\* and either validation is disabled or validate returned True; when
\* validation is enabled and fails, load is never invoked and no output CSV
\* is written.
C1_LoadExactlyAfterValidation ==
    /\ [] /\ "load" \in invoked =>
                /\ {"extract", "transform"} \subseteq completed
                /\ (~validateFlag \/ validateResult = "true")
          /\ ( /\ pc \in Terminal
               /\ {"extract", "transform"} \subseteq completed
               /\ (~validateFlag \/ validateResult = "true") )
             => "load" \in invoked
          /\ (validateFlag /\ validateResult = "false") => "load" \notin invoked
    /\ [][validateResult' = "false" => processed' = processed]_vars

C1_Witness ==
    /\ pc = "loaded"
    /\ validateFlag
    /\ validateResult = "true"
    /\ processed[LoadPath(report, params)] = File(data)

\* C2: every sum-to-total validation rejects the data whenever the absolute
\* difference between the sum of the parts and the reported total exceeds
\* the tolerance, whichever side is larger.
C2_RejectsBeyondTolerance ==
    validateResult = "true" =>
        Abs(SumSeq(Front(data)) - Last(data)) <= Tolerance(report)

\* C3: load is all-or-nothing: when load ends, normally or by a failure
\* part-way through writing, the destination CSV holds the complete record
\* set or is exactly as it was before load began.
C3_LoadAllOrNothing ==
    [][LoadBegins =>
          \/ processed'[LoadPath(report, params)] = File(data)
          \/ processed'[LoadPath(report, params)]
                = processed[LoadPath(report, params)]]_vars

\* C4 (as stated): until the load step begins, the files on disk, processed
\* outputs and interim OCR cache alike, are as they were.
C4_NothingNewBeforeLoad ==
    [][("load" \notin invoked') =>
          /\ processed' = processed
          /\ interim' = interim
          /\ interimDir' = interimDir]_vars

\* C4 (amended): until the load step begins the processed outputs are as
\* they were; the interim OCR cache may change, but only in per-page files
\* of the invocation's own source PDF, written by extract on a cache miss.
C4_OnlyOwnCacheBeforeLoad ==
    [][("load" \notin invoked') =>
          /\ processed' = processed
          /\ \A key \in DOMAIN interim :
                (interim'[key] # interim[key] \/ key \in written') =>
                    /\ key[1] = params
                    /\ UsesTextract(report)
                    /\ pc \in {"created", "extracting"}
                    /\ ~interim[<<params, Len(out) + 1>>].exists]_vars

C4_Witness ==
    /\ pc = "error"
    /\ validateResult = "false"
    /\ "load" \notin invoked
    /\ UsesTextract(report)
    /\ interim[<<params, 1>>].exists

CallOnCachedPage ==
    /\ UsesTextract(report)
    /\ pc \in {"created", "extracting"}
    /\ interim[<<params, Len(out) + 1>>].exists

\* C6: when the interim CSV for (source stem, page) exists,
\* _get_textract_output returns that file's contents without calling the
\* OCR backend and without creating or modifying any file.
C6_CacheHitBypassesOcr ==
    [][CallOnCachedPage =>
          /\ out' = Append(out, interim[<<params, Len(out) + 1>>].rows)
          /\ ocrCalls' = ocrCalls
          /\ written' = {}
          /\ interim' = interim
          /\ interimDir' = interimDir
          /\ processed' = processed]_vars

C6_Witness ==
    /\ UsesTextract(report)
    /\ pc = "extracted"
    /\ runs = 2
    /\ ocrCalls = NumPages
    /\ written = {}
    /\ \A i \in 1..NumPages : out[i] = interim[<<params, i>>].rows

\* C7: the OCR interim cache is append-only: once a per-page cache file
\* exists, no later _get_textract_output call rewrites or deletes it.
C7_CacheAppendOnly ==
    [][\A key \in DOMAIN interim :
          interim[key].exists =>
              (key \notin written' /\ interim'[key] = interim[key])]_vars

---------------------------------------------------------------------------
(* Claims about the OCR polling loop, checked under SpecPoll *)

\* C8: once the backend has reported a terminal status for the analysis
\* job, AWSTextract.extract stops polling: on success it yields the parsed
\* tokens, on a failure status the invocation ends with an error.
C8_StopsPollingOnTerminalStatus ==
    [][(jobstatus \in TerminalStatuses) =>
          /\ polls' = polls
          /\ pollPc' = (IF jobstatus = "SUCCEEDED" THEN "done"
                                                      ELSE "error")]_vars

---------------------------------------------------------------------------
(* Claims about table reconstruction, checked under SpecTable *)

InGrid(text) ==
    \E r \in 1..Len(table) : \E c \in 1..Len(table[r]) : table[r][c] = text

\* C9: once words_to_table has run, for every token of the page whose text
\* starts with "*", no token whose bottom is at or below that token's
\* bottom appears in the grid, as a row header or as a data cell.
C9_FootnoteCutsOffRowsBelow ==
    tablePc = "done" =>
        \A i, j \in 1..Len(words) :
            (StartsWith(words[i].text, <<"*">>)
                /\ words[j].bottom >= words[i].bottom)
            => ~InGrid(words[j].text)

WageToken == Word(0, 40, 100, 112, <<"W", "a", "g", "e">>)

DollarAmountToken ==
    Word(200, 260, 101, 113, <<"$", "1", ",", "2", "3", "4", ".", "0", "0">>)

PlainAmountToken ==
    Word(206, 260, 101, 113, <<"1", ",", "2", "3", "4", ".", "0", "0">>)

\* C10 as stated: words_to_table on the tokens 'Wage' and '$1,234.00' of one
\* line returns the one-row grid [['Wage', '$1,234.00']].
C10_WageRowWithDollarAmount ==
    (tablePc = "done" /\ words = <<WageToken, DollarAmountToken>>)
    => table = << <<WageToken.text, DollarAmountToken.text>> >>

\* C10, amended: on the tokens 'Wage' and '$1,234.00' of one line
\* words_to_table returns the one-cell grid [['Wage']], the amount being
\* dropped because it does not start like a number; on 'Wage' and
\* '1,234.00' it returns [['Wage', '1,234.00']].
C10_WageRowKeepsPlainAmountOnly ==
    /\ (tablePc = "done" /\ words = <<WageToken, DollarAmountToken>>)
       => table = << <<WageToken.text>> >>
    /\ (tablePc = "done" /\ words = <<WageToken, PlainAmountToken>>)
       => table = << <<WageToken.text, PlainAmountToken.text>> >>

C10_Witness ==
    /\ tablePc = "done"
    /\ words = <<WageToken, DollarAmountToken>>
    /\ table # <<>>

\* The headers and the data columns words_to_table works with on this page:
\* the headers the row loop collected, and the columns that are left after
\* the three column clean-up rules.
PageHeaders == TableSplit(words, text_tolerance_y, text_tolerance_x).headers

PageColumns ==
    TableColumns(TableSplit(words, text_tolerance_y, text_tolerance_x).words,
                 column_tolerance, min_col_sep)

\* The columns left by the clean-up that give some header a cell other
\* than "" and "-".
FilledColumns ==
    { c \in 1..Len(PageColumns) :
        \E r \in 1..Len(PageHeaders) :
            CellText(PageHeaders, PageHeaders[r], PageColumns[c].values,
                     row_header_tolerance) \notin {<<>>, <<"-">>} }

\* C11 as stated: the grid has one row per collected header, every row has
\* (number of columns left by the clean-up + 1) cells, and column 0 is the
\* header texts in header order.
C11_GridIsHeadersByColumnsPlusOne ==
    tablePc = "done" =>
        /\ Len(table) = Len(PageHeaders)
        /\ Width(table) = Len(PageColumns) + 1
        /\ \A r \in 1..Len(table) :
               /\ Len(table[r]) = Len(PageColumns) + 1
               /\ table[r][1] = PageHeaders[r].text

\* C11, amended: the grid has one row per collected header and all rows
\* have the same length; with at least one header that length is one plus
\* the number of cleaned-up columns that give some header a cell other
\* than "" and "-", and column 0 is the header texts in header order; with
\* no header the grid has no rows and no columns.
C11_GridIsHeadersByFilledColumnsPlusOne ==
    tablePc = "done" =>
        /\ Len(table) = Len(PageHeaders)
        /\ \A r \in 1..Len(table) :
               /\ Len(table[r]) = Cardinality(FilledColumns) + 1
               /\ table[r][1] = PageHeaders[r].text
        /\ (PageHeaders = <<>>) => Width(table) = 0

\* A page where a column left by the clean-up gives no header a cell.
C11_Witness ==
    /\ tablePc = "done"
    /\ Len(table) >= 1
    /\ Len(PageColumns) >= 1
    /\ Width(table) < Len(PageColumns) + 1

\* The row groups fuzzy_groupby returns for the page.
RowGroups ==
    FuzzyGroupBy(words, text_tolerance_y, text_tolerance_y, "bottom")

\* Two tokens are members of one returned group.
Together(a, b) ==
    \E g \in 1..Len(RowGroups) :
        /\ \E i \in 1..Len(RowGroups[g].values) : RowGroups[g].values[i] = a
        /\ \E i \in 1..Len(RowGroups[g].values) : RowGroups[g].values[i] = b

\* The closed intervals [bottom - tol, bottom + tol] of two tokens meet.
IntervalsOverlap(a, b) ==
    /\ a.bottom - text_tolerance_y <= b.bottom + text_tolerance_y
    /\ b.bottom - text_tolerance_y <= a.bottom + text_tolerance_y

\* The value k lies in the token's half-open interval
\* [bottom - tol, bottom + tol).
Covers(a, k) ==
    a.bottom - text_tolerance_y <= k /\ k < a.bottom + text_tolerance_y

\* C12 as stated: two tokens of the page are together in some group of
\* fuzzy_groupby if and only if their tolerance intervals
\* [key - lower_tol, key + upper_tol] overlap.
C12_TogetherIffIntervalsOverlap ==
    tablePc = "done" =>
        \A i, j \in 1..Len(words) :
            Together(words[i], words[j])
                <=> IntervalsOverlap(words[i], words[j])

\* C12, amended: two tokens of the page are together in some group of
\* fuzzy_groupby if and only if the key value of some token of the page
\* lies in the half-open interval [key - lower_tol, key + upper_tol) of
\* both; overlapping intervals are necessary for that, not sufficient.
C12_TogetherIffSomeKeyInBothIntervals ==
    tablePc = "done" =>
        \A i, j \in 1..Len(words) :
            /\ Together(words[i], words[j])
                   <=> \E u \in 1..Len(words) :
                           /\ Covers(words[i], words[u].bottom)
                           /\ Covers(words[j], words[u].bottom)
            /\ Together(words[i], words[j])
                   => IntervalsOverlap(words[i], words[j])

\* Two tokens whose intervals overlap and that share no group, beside two
\* distinct tokens that share one.
C12_Witness ==
    /\ tablePc = "done"
    /\ \E i, j \in 1..Len(words) :
           IntervalsOverlap(words[i], words[j])
               /\ ~Together(words[i], words[j])
    /\ \E i, j \in 1..Len(words) :
           i # j /\ Together(words[i], words[j])

\* The columns remove_close_columns is handed on this page.
OrphanFreeColumns ==
    RemoveOrphanColumns(
        GroupColumns(TableSplit(words, text_tolerance_y,
                                text_tolerance_x).words,
                     column_tolerance))

\* What remove_close_columns makes of them.
SeparatedColumns == RemoveCloseColumns(OrphanFreeColumns, min_col_sep)

\* The page has exactly two columns, and they are closer than min_col_sep.
TwoCloseColumns ==
    /\ tablePc = "done"
    /\ Len(OrphanFreeColumns) = 2
    /\ OrphanFreeColumns[2].loc - OrphanFreeColumns[1].loc < min_col_sep

\* The one column left is at loc and holds the tokens of both columns.
MergedAt(loc) ==
    /\ Len(SeparatedColumns) = 1
    /\ SeparatedColumns[1].loc = loc
    /\ Len(SeparatedColumns[1].values)
           = Len(OrphanFreeColumns[1].values)
               + Len(OrphanFreeColumns[2].values)
    /\ \A c \in 1..2 : \A i \in 1..Len(OrphanFreeColumns[c].values) :
           \E n \in 1..Len(SeparatedColumns[1].values) :
               SeparatedColumns[1].values[n] = OrphanFreeColumns[c].values[i]

\* C13 as stated: of two adjacent columns closer than min_col_sep the one
\* with fewer tokens is merged into the one with more, which keeps its
\* position and holds the tokens of both; with equal numbers of tokens the
\* right column survives.
C13_SmallerMergedTieKeepsRight ==
    TwoCloseColumns =>
        LET left == OrphanFreeColumns[1]
            right == OrphanFreeColumns[2]
        IN  IF Len(left.values) > Len(right.values)
            THEN MergedAt(left.loc)
            ELSE MergedAt(right.loc)

\* C13, amended: of two adjacent columns closer than min_col_sep the one
\* with fewer tokens is merged into the one with more, which keeps its
\* position and holds the tokens of both; with equal numbers of tokens the
\* left column survives.
C13_SmallerMergedTieKeepsLeft ==
    TwoCloseColumns =>
        LET left == OrphanFreeColumns[1]
            right == OrphanFreeColumns[2]
        IN  IF Len(right.values) > Len(left.values)
            THEN MergedAt(right.loc)
            ELSE MergedAt(left.loc)

\* Two close columns with the same number of tokens.
C13_Witness ==
    /\ TwoCloseColumns
    /\ Len(OrphanFreeColumns[1].values) = Len(OrphanFreeColumns[2].values)

\* Two close columns of which the right one holds more tokens.
C13_RightLarger ==
    /\ TwoCloseColumns
    /\ Len(OrphanFreeColumns[1].values) < Len(OrphanFreeColumns[2].values)

\* C14: after remove_close_columns, any two adjacent columns that are left
\* are at least min_col_sep apart.
C14_SurvivorsAtLeastMinColSepApart ==
    tablePc = "done" =>
        \A k \in 1..(Len(SeparatedColumns) - 1) :
            SeparatedColumns[k + 1].loc - SeparatedColumns[k].loc
                >= min_col_sep

\* The index of the header nearest to the token, the topmost on a tie.
NearestHeaderIndex(w) ==
    CHOOSE h \in 1..Len(PageHeaders) :
        /\ \A g \in 1..Len(PageHeaders) :
               Abs(PageHeaders[h].top - w.top)
                   <= Abs(PageHeaders[g].top - w.top)
        /\ \A g \in 1..(h - 1) :
               Abs(PageHeaders[g].top - w.top)
                   > Abs(PageHeaders[h].top - w.top)

\* The token is within row_header_tolerance of two entries of the header
\* list.
NearTwoHeaders(w) ==
    \E g, h \in 1..Len(PageHeaders) :
        /\ g # h
        /\ Abs(PageHeaders[g].top - w.top) <= row_header_tolerance
        /\ Abs(PageHeaders[h].top - w.top) <= row_header_tolerance

\* The text is a data cell of row r of the grid.
InRow(text, r) == \E c \in 2..Len(table[r]) : table[r][c] = text

\* C15: a data token within row_header_tolerance of two headers has its
\* text in no row of the grid but the row of the header nearest to it, the
\* one with the smaller index on a tie.
C15_OnlyInNearestHeaderRow ==
    tablePc = "done" =>
        \A c \in 1..Len(PageColumns) :
            \A i \in 1..Len(PageColumns[c].values) :
                LET w == PageColumns[c].values[i]
                IN  NearTwoHeaders(w) =>
                        \A r \in 1..Len(table) :
                            InRow(w.text, r) => r = NearestHeaderIndex(w)

\* The words a row refers to.
RowTokens(m) == [i \in 1..Len(m.row) |-> m.store[m.row[i]]]

\* The row after its j-th and (j+1)-th tokens were merged into one.
PairMerged(row, store, j) ==
    [row |-> RemoveAt(row, j + 1),
     store |-> [store EXCEPT ![row[j]] =
                   [store[row[j]] EXCEPT
                       !.text = store[row[j]].text \o <<" ">>
                                    \o store[row[j + 1]].text,
                       !.x1 = store[row[j + 1]].x1]]]

\* The adjacency predicate of phrase merging.
Adjacent(row, store, j) ==
    store[row[j + 1]].x0 - store[row[j]].x1 < text_tolerance_x

\* C16: for every row of the page, ordered by x0, merging any one adjacent
\* pair that satisfies right.x0 - left.x1 < text_tolerance_x first and then
\* running the right-to-left merge gives the same tokens (texts, x0 and x1)
\* as running the right-to-left merge directly.
C16_PhraseMergingAssociative ==
    tablePc = "done" =>
        \A k \in 1..Len(TableRows(words, text_tolerance_y)) :
            LET row == TableRows(words, text_tolerance_y)[k]
                direct == MergePhrases(row, words, Len(row), text_tolerance_x)
            IN  \A j \in 1..(Len(row) - 1) :
                    Adjacent(row, words, j) =>
                        LET pre == PairMerged(row, words, j)
                        IN  RowTokens(MergePhrases(pre.row, pre.store,
                                                   Len(pre.row),
                                                   text_tolerance_x))
                                = RowTokens(direct)

\* A row of three tokens, each adjacent to the next, merged into one.
C16_Witness ==
    /\ tablePc = "done"
    /\ \E k \in 1..Len(TableRows(words, text_tolerance_y)) :
           LET row == TableRows(words, text_tolerance_y)[k]
           IN  /\ Len(row) >= 3
               /\ Adjacent(row, words, 1)
               /\ Adjacent(row, words, 2)
               /\ Len(MergePhrases(row, words, Len(row),
                                   text_tolerance_x).row) < Len(row) - 1

---------------------------------------------------------------------------
(* Claims about numeric coercion, checked under SpecCoerce *)

\* C17: for every amount v with two fractional digits, convert_to_floats
\* applied to v written as "$" and the comma-grouped magnitude (v >= 0), or
\* as the comma-grouped magnitude in parentheses (v < 0), gives v.
C17_CurrencyRoundTrip ==
    \A a \in Amounts :
        (coercePc = "done" /\ cellText = FormatCurrency(a))
            => coerced = Decimal(a, 2)

\* A negative amount of more than a thousand, converted.
C17_Witness ==
    /\ coercePc = "done"
    /\ cellText = FormatCurrency(-123450)
    /\ coerced = Decimal(-123450, 2)

---------------------------------------------------------------------------
(* Claims about a monthly report's extract and transform, checked under    *)
(* SpecReport                                                              *)

\* C18: no pass of the monthly cleaner pipeline raises, whatever grid the
\* table reconstruction produced, a grid of the header column alone
\* included; after it every data cell is a number or missing.
C18_CleanerPassesAreTotal ==
    /\ stage # "transform failed"
    /\ stage = "transformed" =>
           \A r \in 1..Len(reportData.rows) :
               \A c \in 2..reportData.ncols :
                   reportData.rows[r][c].scale >= -1

\* C19: MonthlyCollectionsReport.transform applied to its own output
\* returns, and returns the table it was given.
C19_TransformIdempotent ==
    [][(stage = "transformed" /\ stage' # stage)
           => (stage' = "retransformed" /\ reportData' = reportData)]_vars

\* Every page of the PDF yields no token.
AllPagesEmpty == \A p \in 1..Len(pdfPages) : pdfPages[p] = <<>>

\* C20: for a PDF whose pages yield no tokens, extract gives an empty grid
\* and transform an empty record set, and neither raises.
C20_EmptyPagesGiveEmptyRecordSet ==
    (stage # "idle" /\ AllPagesEmpty) =>
        /\ stage \notin {"extract failed", "transform failed"}
        /\ stage \in {"extracted", "transformed"}
               => reportData.rows = <<>>

\* The grid words_to_table gives the city report for page p.
PageGrid(p) ==
    WordsToTableWith(pdfPages[p], text_tolerance_y, city_text_tolerance_x,
                     column_tolerance, min_col_sep, row_header_tolerance)

\* The row headers of page p that have no data token within
\* row_header_tolerance.
BareHeaders(p) ==
    LET split == TableSplit(pdfPages[p], text_tolerance_y,
                            city_text_tolerance_x)
    IN  { split.headers[h] : h \in
            { g \in 1..Len(split.headers) :
                \A i \in 1..Len(split.words) :
                    Abs(split.words[i].top - split.headers[g].top)
                        > row_header_tolerance } }

\* The rows of a frame that hold something in a data column.
DataRows(frame) ==
    SelectSeq(frame.rows, LAMBDA row :
        \E c \in 2..Len(row) :
            IF c \in frame.numeric THEN row[c] # Missing
            ELSE row[c] \notin {<<>>, NaNCell})

---------------------------------------------------------------------------
(* Claims about the batch runner's parser, checked under SpecBatch         *)

\* The characters a..b of the stem are digits.
DigitsAt(s, a, b) == Len(s) >= b /\ \A i \in a..b : s[i] \in Digits

\* The stem has character c at position i.
CharAt(s, i, c) == Len(s) >= i /\ s[i] = c

SeparatorAt(s, i) == CharAt(s, i, "_") \/ CharAt(s, i, "-")

QuarterAt(s, i) == CharAt(s, i, "Q") /\ Len(s) > i /\ s[i + 1] \in {"1", "2", "3", "4"}

\* The stem starts with FY{yy}
IsFY(s) == CharAt(s, 1, "F") /\ CharAt(s, 2, "Y") /\ DigitsAt(s, 3, 4)

\* The stem starts with FY{yy}_Q{n} or FY{yy}-Q{n}
IsFYQ(s) == IsFY(s) /\ SeparatorAt(s, 5) /\ QuarterAt(s, 6)

\* The stem starts with YYYY_MM or YYYY-MM
IsYM(s) == DigitsAt(s, 1, 4) /\ SeparatorAt(s, 5) /\ DigitsAt(s, 6, 7)

\* The stem starts with YYYY_Q{n} or YYYY-Q{n}
IsYQ(s) == DigitsAt(s, 1, 4) /\ SeparatorAt(s, 5) /\ QuarterAt(s, 6)

NumberAt(s, a, b) == TextToNat(SubSeq(s, a, b))

\* The parameters of the first of FY{yy}_Q{n}, FY{yy}, YYYY_MM the stem
\* starts with, and otherwise whatever `rest` is.
FirstOfThree(s, rest) ==
    IF IsFYQ(s)
    THEN [fiscal_year |-> 2000 + NumberAt(s, 3, 4),
          quarter |-> NumberAt(s, 7, 7)]
    ELSE IF IsFY(s) THEN [fiscal_year |-> 2000 + NumberAt(s, 3, 4)]
    ELSE IF IsYM(s)
    THEN [year |-> NumberAt(s, 1, 4), month |-> NumberAt(s, 6, 7)]
    ELSE rest

\* C22: the parser knows the three patterns FY{yy}_Q{n}, FY{yy} and
\* YYYY_MM and no other: it returns the parameters of the first that
\* matches, and nothing for a stem that matches none of them.
C22_ExactlyThreePatterns ==
    cliPc \in {"parsed", "ValueError"} =>
        cliParams = FirstOfThree(fileStem, None)

\* C22, amended: _extract_parameters knows a fourth pattern, YYYY_Q{n},
\* tried last; the parser of cli/etl.py knows the three.
C22_FirstOfFourPatterns ==
    cliPc \in {"parsed", "ValueError"} =>
        /\ cliParams =
               FirstOfThree(fileStem,
                   IF IsYQ(fileStem)
                   THEN [year |-> NumberAt(fileStem, 1, 4),
                         quarter |-> NumberAt(fileStem, 7, 7)]
                   ELSE None)
        /\ legacyParams = FirstOfThree(fileStem, None)
        /\ cliPc = "ValueError" <=> cliParams = None

\* A stem of the fourth pattern has been parsed.
C22_Witness ==
    /\ cliPc = "parsed"
    /\ fileStem = <<"2", "0", "2", "1", "_", "Q", "1">>
    /\ cliParams = [year |-> 2021, quarter |-> 1]
    /\ legacyParams = None

---------------------------------------------------------------------------
(* Claims about the processed paths, checked under SpecLoad                *)

\* C23: two reports that differ in class or in parameters write their CSV
\* to different paths.
C23_OutputsNeverCollide ==
    (pathA # NoPath /\ pathB # NoPath /\ reportA # reportB)
        => pathA # pathB

---------------------------------------------------------------------------
(* Claims about fiscal months, checked under SpecFiscal                    *)

\* July = 1, ..., June = 12
FiscalRule(m) == ((m - 7) % 12) + 1

\* C24: every conversion of a calendar month to a fiscal month follows
\* fiscal_month = ((calendar_month - 7) mod 12) + 1, and the conversion of
\* a fiscal month to a calendar month is its inverse.
C24_FiscalMonthRule ==
    /\ sentinelFiscal # 0 => sentinelFiscal = FiscalRule(calendarMonth)
    /\ collectionsFiscal # 0 => collectionsFiscal = FiscalRule(calendarMonth)
    /\ cashMonth # 0 => FiscalRule(cashMonth) = fiscalMonth

---------------------------------------------------------------------------
(* Claims about the token providers, checked under SpecTokens              *)

\* The text is not empty, starts and ends with no whitespace and holds no
\* non-breaking space.
CleanText(t) ==
    /\ t # <<>>
    /\ ~IsSpace(t[1]) /\ ~IsSpace(t[Len(t)])
    /\ \A i \in 1..Len(t) : t[i] # Nbsp

\* C25: every token a provider returns has a text that is not empty, has
\* no leading or trailing whitespace and no non-breaking space.
C25_TokenTextsAreClean ==
    tokensPc = "done" =>
        \A i \in 1..Len(provided) : CleanText(provided[i].text)

---------------------------------------------------------------------------
(* Claims about the department matches, checked under SpecDepts            *)

\* C26: when match_missing_departments has returned or raised, every raw
\* name it resolved through the selector is in dept-matches.json.
C26_SelectedMatchesPersisted ==
    deptPc \in {"returned", "raised"} =>
        \A a \in selected : deptFile[a] # Unmatched

---------------------------------------------------------------------------
(* Claims about the column cleanup, checked under SpecTable                *)

\* The columns words_to_table hands to create_data_table for a page.
SurvivingColumns(ws) ==
    TableColumns(TableSplit(ws, text_tolerance_y, text_tolerance_x).words,
                 column_tolerance, min_col_sep)

\* C27: once words_to_table has made the grid, no token is in two of the
\* columns that survived the column cleanup.
C27_TokenInOneColumn ==
    tablePc = "done" =>
        LET columns == SurvivingColumns(words)
        IN  \A j, k \in 1..Len(columns) :
                j # k =>
                    \A i \in 1..Len(columns[j].values) :
                        \A n \in 1..Len(columns[k].values) :
                            columns[j].values[i] # columns[k].values[n]

---------------------------------------------------------------------------
(* Claims about the batch freshness test, checked under SpecFresh          *)

\* C28: with fresh=False, the loop runs the pipeline for a raw PDF exactly
\* when the CSV load writes for that PDF is missing or older than the PDF.
C28_RunsExactlyWhenStale ==
    [][(freshPc = "loop" /\ pending # <<>> /\ ~freshFlag
            /\ pending' = Tail(pending)) =>
          LET pdf_path == Head(pending)
              csv == LoadPathOf(etlClass, ReportParams(etlClass, pdf_path))
          IN  (pdf_path \in etlRuns') <=>
                  (csvTimes[csv] = Absent \/ csvTimes[csv] < pdfTimes[pdf_path])
      ]_vars

---------------------------------------------------------------------------
(* Claims about the monthly update, checked under SpecUpdate               *)

\* C29: when a pipeline run has failed for a new month and the error
\* propagates, neither the raw PDF of that month nor a CSV this update
\* wrote for that month is on disk.
C29_FailedMonthLeavesNoFiles ==
    updatePc = "raised" =>
        /\ LocalPdfPath(Head(newMonths)) \notin rawDir
        /\ \A csv \in writtenCsvs :
               (csv.year = Head(newMonths).year
                    /\ csv.month = Head(newMonths).month)
                   => csv \notin processedDir

---------------------------------------------------------------------------
(* Claims about the batch runner's reports, checked under SpecBatch        *)

\* C30: the report made from the parameters of an accepted stem has the
\* raw file the stem was taken from as its input path.
C30_ReportPathIsTheFile ==
    cliPc = "constructed" => reportPath = Path(fileDir, fileStem \o Pdf)

\* The stem is the name the report class gives its raw files: nothing but
\* the pattern, "_" as the separator, a four-digit year without a leading
\* zero.
CanonicalStem(cls, s) ==
    IF cls \in QCMRClasses THEN IsFYQ(s) /\ Len(s) = 7 /\ s[5] = "_"
    ELSE IF cls \in BudgetSummaryClasses THEN IsFY(s) /\ Len(s) = 4
    ELSE /\ IsYM(s) \/ IsYQ(s)
         /\ Len(s) = 7 /\ s[5] = "_" /\ s[1] # "0"

\* C30, amended: the report's input path is the raw file exactly when the
\* stem is the name the class gives its raw files and, for a budget
\* summary, the file is in the directory of the --kind of the command.
C30_CanonicalFileRoundTrip ==
    cliPc = "constructed" =>
        (reportPath = Path(fileDir, fileStem \o Pdf)
            <=> /\ CanonicalStem(batchRun.cls, fileStem)
                /\ batchRun.cls \in BudgetSummaryClasses
                       => fileDir[Len(fileDir)] = batchRun.kind)

\* A quarterly report made from the stem FY21_Q1 reads FY21_Q1.pdf.
C30_Witness ==
    /\ cliPc = "constructed"
    /\ batchRun.cls = "DepartmentObligations"
    /\ fileStem = <<"F", "Y", "2", "1", "_", "Q", "1">>
    /\ reportPath = Path(fileDir, fileStem \o Pdf)

===========================================================================
